------------------------------ MODULE MCServing ------------------------------
(* Three parts of a proxy that serves, which share no state with one another: *)
(* the gate that holds sibling requests back, the proxy's life from bind to   *)
(* return, and the socket path it listens on.  `which` says which of them     *)
(* this behaviour is about; the others keep one of their initial states.  At  *)
(* the gate there are three requests over two prefixes: a leader, a sibling   *)
(* that waits and one that gives up and answers first.  No symmetry, because  *)
(* the run checks liveness properties.                                        *)
EXTENDS SiblingGate, SocketPath, Lifecycle

VARIABLES which

ServingInit ==
    /\ which \in {"gate", "life", "socket"}
    /\ Init
    /\ LifeInit /\ (which # "life" => wantMetrics = FALSE)
    /\ SocketInit /\ (which # "socket" => sock = Free)

ServingNext ==
    \/ which = "gate" /\ Next /\ UNCHANGED <<which, lifecycleVars, socketVars>>
    \/ which = "life" /\ LifeNext /\ UNCHANGED <<which, vars, socketVars>>
    \/ which = "socket" /\ SocketNext /\ UNCHANGED <<which, vars, lifecycleVars>>

\* The fairness of the part that runs: a gate no request came to has no step
\* to take.
ServingFair ==
    /\ Fairness
    /\ WF_lifecycleVars(which = "life" /\ Proceed)
    /\ WF_lifecycleVars(which = "life" /\ MetricsClose)

ServingSpec == ServingInit /\ [][ServingNext]_<<which, vars, lifecycleVars, socketVars>> /\ ServingFair

-----------------------------------------------------------------------------
\* A request that reached the gate is forwarded in the end
\* (SiblingGate.HeldGoesThrough), and a cancelled proxy returns and releases
\* whoever waits for its address (Lifecycle.CancelReturns).
NobodyWaitsForEver == HeldGoesThrough /\ CancelReturns

==============================================================================
