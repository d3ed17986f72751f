------------------------------ MODULE Lifecycle ------------------------------
(***************************************************************************)
(* ListenAndServe, shutdown and the connection bookkeeping of the proxy    *)
(* (internal/proxy/lifecycle.go), with the goroutine that serves the       *)
(* metrics listener (metrics_listener.go).                                 *)
(*                                                                         *)
(* net/http is external, modelled from what this code relies on: a         *)
(* connection is reported New when accepted, Active once a whole request   *)
(* header has been read and Idle after the response; Shutdown closes the   *)
(* listener at once and idle connections as it finds them, and returns     *)
(* when none is left or its context ends; Close closes everything.         *)
(***************************************************************************)
EXTENDS FiniteSets

CONSTANTS
    Conn,           \* connections that clients may open
    MayWantMetrics  \* whether a metrics address may be configured

ASSUME LifeAssumption == MayWantMetrics \subseteq BOOLEAN

VARIABLES
    main,           \* where ListenAndServe is
    ready,          \* s.ready is closed
    cancelled,      \* ctx is done
    wantMetrics,    \* s.cfg.MetricsListen is set
    metrics,        \* the metrics goroutine: off, serving, or what it sent to mdone
    accepting,      \* the http server's accept loop: off, on, closed, failed
    conn,           \* what the http server knows of each connection
    idleConns,      \* s.idleConns
    doomed,         \* the copy closeUnusedConns works through
    graceOver,      \* the grace period of shutdown has run out
    result,         \* what ListenAndServe returned
    \* What really happened, for the properties only:
    cut,            \* connections closed with a request in progress
    early           \* connections with a turn in progress when shutdown began

serverVars == <<main, ready, cancelled, wantMetrics, metrics, accepting, result>>
connVars == <<conn, idleConns, doomed, graceOver, cut, early>>
lifecycleVars == <<serverVars, connVars>>

Open == {c \in Conn : conn[c] \in {"new", "active", "idle"}}
Stopping == {"unused", "close", "drain"}

LifeInit ==
    /\ main = "bind" /\ ready = FALSE /\ cancelled = FALSE
    /\ wantMetrics \in MayWantMetrics
    /\ metrics = "off" /\ accepting = "off"
    /\ conn = [c \in Conn |-> "none"]
    /\ idleConns = {} /\ doomed = {} /\ graceOver = FALSE
    /\ result = "running"
    /\ cut = {} /\ early = {}

-----------------------------------------------------------------------------
(* ListenAndServe up to its select.  The deferred markReady is part of     *)
(* every return.                                                           *)

\* Slip: ready is closed only where both listeners are up.
ReturnUnready(r) ==
    /\ main' = "returned" /\ result' = r
    /\ UNCHANGED ready

Return(r) ==
    /\ main' = "returned" /\ result' = r
    /\ ready' = TRUE

BindFails ==
    /\ main = "bind"
    /\ Return("error")
    /\ UNCHANGED <<cancelled, wantMetrics, metrics, accepting, connVars>>

Bind ==
    /\ main = "bind"
    /\ main' = "bindMetrics"
    /\ UNCHANGED <<ready, cancelled, wantMetrics, metrics, accepting, result, connVars>>

\* The first listener is closed again.
BindMetricsFails ==
    /\ main = "bindMetrics" /\ wantMetrics
    /\ Return("error")
    /\ UNCHANGED <<cancelled, wantMetrics, metrics, accepting, connVars>>

\* Both listeners are up: ready, then the two goroutines, then the select.
Serve ==
    /\ main = "bindMetrics"
    /\ main' = "select" /\ ready' = TRUE
    /\ metrics' = IF wantMetrics THEN "serving" ELSE "off"
    /\ accepting' = "on"
    /\ UNCHANGED <<cancelled, wantMetrics, result, connVars>>

Cancel ==
    /\ ~cancelled /\ main # "returned"
    /\ cancelled' = TRUE
    /\ UNCHANGED <<main, ready, wantMetrics, metrics, accepting, result, connVars>>

\* serveMetrics: its listener fails, or the context ends and it closes.
MetricsFail ==
    /\ metrics = "serving"
    /\ metrics' = "error"
    /\ UNCHANGED <<main, ready, cancelled, wantMetrics, accepting, result, connVars>>
MetricsClose ==
    /\ metrics = "serving" /\ cancelled
    /\ metrics' = "nil"
    /\ UNCHANGED <<main, ready, cancelled, wantMetrics, accepting, result, connVars>>

AcceptFails ==
    /\ accepting = "on"
    /\ accepting' = "failed"
    /\ UNCHANGED <<main, ready, cancelled, wantMetrics, metrics, result, connVars>>

-----------------------------------------------------------------------------
(* The select.  Any arm that is ready may be taken.  An arm that calls     *)
(* shutdown enters closeUnusedConns, which empties the map under its lock  *)
(* and closes what it copied after the lock is released.                   *)

\* Slip: every connection the server knows is closed first.
EnterShutdownAll ==
    /\ main' = "unused"
    /\ doomed' = Open /\ idleConns' = {}
    /\ early' = {c \in Conn : conn[c] = "active"}
    /\ UNCHANGED <<conn, graceOver, cut>>

EnterShutdown ==
    /\ main' = "unused"
    /\ doomed' = idleConns /\ idleConns' = {}
    /\ early' = {c \in Conn : conn[c] = "active"}
    /\ UNCHANGED <<conn, graceOver, cut>>

SelectCancelled ==
    /\ main = "select" /\ cancelled
    /\ EnterShutdown
    /\ UNCHANGED <<ready, cancelled, wantMetrics, metrics, accepting, result>>

\* The metrics goroutine ended.  Its value has been received, and is what the
\* caller gets once shutdown is over.
SelectMetrics ==
    /\ main = "select" /\ metrics \in {"error", "nil"}
    /\ EnterShutdown
    /\ result' = metrics /\ metrics' = "off"
    /\ UNCHANGED <<ready, cancelled, wantMetrics, accepting>>

SelectAccept ==
    /\ main = "select" /\ accepting = "failed"
    /\ Return("error")
    /\ UNCHANGED <<cancelled, wantMetrics, metrics, accepting, connVars>>

\* What closing does to a connection that carries a request.
CloseConns(S) ==
    /\ conn' = [c \in Conn |-> IF c \in S \cap Open THEN "closed" ELSE conn[c]]
    /\ cut' = cut \cup {c \in S : conn[c] = "active"}
    /\ idleConns' = idleConns \ S

CloseUnused ==
    /\ main = "unused"
    /\ CloseConns(doomed)
    /\ doomed' = {}
    /\ main' = "close"
    /\ UNCHANGED <<graceOver, early, ready, cancelled, wantMetrics, metrics, accepting, result>>

\* s.http.Shutdown closes the listener; Serve returns ErrServerClosed.
Shutdown ==
    /\ main = "close"
    /\ main' = "drain"
    /\ accepting' = IF accepting = "on" THEN "closed" ELSE accepting
    /\ UNCHANGED <<ready, cancelled, wantMetrics, metrics, result, connVars>>

DrainIdle ==
    /\ main = "drain"
    /\ \E c \in Conn : conn[c] = "idle" /\ CloseConns({c})
    /\ UNCHANGED <<serverVars, doomed, graceOver, early>>

GraceEnds ==
    /\ main = "drain" /\ ~graceOver
    /\ graceOver' = TRUE
    /\ UNCHANGED <<serverVars, conn, idleConns, doomed, cut, early>>

\* After shutdown: in the ctx arm the metrics goroutine is waited for and its
\* error kept when shutdown had none; in the mdone arm its value is known.
AfterShutdown ==
    /\ metrics # "serving"
    /\ Return(IF result # "running" THEN result
              ELSE IF metrics = "off" THEN "nil" ELSE metrics)
    /\ UNCHANGED <<cancelled, wantMetrics, metrics, accepting>>

\* Shutdown returns: nothing is open.
Drained ==
    /\ main = "drain" /\ Open = {}
    /\ AfterShutdown
    /\ UNCHANGED connVars

\* Shutdown's deadline passed: Close cuts what is left.
ForceClose ==
    /\ main = "drain" /\ graceOver
    /\ CloseConns(Open)
    /\ AfterShutdown
    /\ UNCHANGED <<doomed, graceOver, early>>

-----------------------------------------------------------------------------
(* Connections, and noteConnState.                                         *)

Accept(c) ==
    /\ accepting = "on" /\ conn[c] = "none"
    /\ conn' = [conn EXCEPT ![c] = "new"]
    /\ idleConns' = idleConns \cup {c}
    /\ UNCHANGED <<serverVars, doomed, graceOver, cut, early>>

\* A whole header has been read: the turn begins.
Request(c) ==
    /\ conn[c] \in {"new", "idle"}
    /\ conn' = [conn EXCEPT ![c] = "active"]
    /\ idleConns' = idleConns \ {c}
    /\ UNCHANGED <<serverVars, doomed, graceOver, cut, early>>

\* The turn ends; a server that is shutting down does not keep the connection.
Respond(c) ==
    /\ conn[c] = "active"
    /\ conn' = [conn EXCEPT ![c] = IF main = "drain" THEN "closed" ELSE "idle"]
    /\ idleConns' = idleConns \ {c}
    /\ UNCHANGED <<serverVars, doomed, graceOver, cut, early>>

\* The client closes a connection with no turn in it.
HangUp(c) ==
    /\ conn[c] \in {"new", "idle"}
    /\ conn' = [conn EXCEPT ![c] = "closed"]
    /\ idleConns' = idleConns \ {c}
    /\ UNCHANGED <<serverVars, doomed, graceOver, cut, early>>

Proceed ==
    \/ Bind \/ BindFails \/ BindMetricsFails \/ Serve
    \/ SelectCancelled \/ SelectMetrics \/ SelectAccept
    \/ CloseUnused \/ Shutdown \/ DrainIdle \/ GraceEnds \/ Drained \/ ForceClose

LifeNext ==
    \/ Proceed
    \/ Cancel \/ MetricsFail \/ MetricsClose \/ AcceptFails
    \/ \E c \in Conn : Accept(c) \/ Request(c) \/ Respond(c) \/ HangUp(c)

(***************************************************************************)
(* The goroutines of the proxy run, and the timer of the grace period      *)
(* fires.  Nothing is assumed of the clients.                              *)
(***************************************************************************)
LifeFairness ==
    /\ WF_lifecycleVars(Proceed) /\ WF_lifecycleVars(MetricsClose)

LifeSpec == LifeInit /\ [][LifeNext]_lifecycleVars /\ LifeFairness

-----------------------------------------------------------------------------
LifeTypeOK ==
    /\ main \in {"bind", "bindMetrics", "select", "returned"} \cup Stopping
    /\ {ready, cancelled, wantMetrics, graceOver} \subseteq BOOLEAN
    /\ metrics \in {"off", "serving", "error", "nil"}
    /\ accepting \in {"off", "on", "closed", "failed"}
    /\ conn \in [Conn -> {"none", "new", "active", "idle", "closed"}]
    /\ idleConns \subseteq Conn /\ doomed \subseteq Conn
    /\ result \in {"running", "error", "nil"}
    /\ cut \subseteq Conn /\ early \subseteq Conn

\* Shutdown never cuts a turn that was in progress when it began before the
\* grace period is over, however connections are accepted, used and closed
\* while the map of unused ones is emptied and worked through.
GraceHonoured == cut \cap early # {} => graceOver

\* When ListenAndServe returns after a shutdown nothing is left open, and its
\* error is the metrics listener's exactly when that failed while it served:
\* a clean stop is nil and a failure is not lost to the cancellation.
StopIsComplete ==
    main = "returned" /\ accepting = "closed" =>
        /\ Open = {} /\ idleConns = {} /\ metrics # "serving"
        /\ metrics = "error" => result = "error"

\* What a stop promises.
StopIsOrderly == LifeTypeOK /\ GraceHonoured /\ StopIsComplete

\* A cancelled proxy always returns, and whoever waits for its address is
\* released, whatever its clients do and whichever arm of the select it takes.
CancelReturns == cancelled ~> (main = "returned" /\ ready)

\* "A connection that started a request between the state callback and this
\* call is no longer in the map, so no turn is cut": only the end of the grace
\* period cuts a turn.
NoTurnCut == cut # {} => graceOver

=============================================================================
