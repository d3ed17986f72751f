------------------------------- MODULE Breaker -------------------------------
(***************************************************************************)
(* The circuit breaker over upstream health (internal/proxy/guards.go) and *)
(* the three places of the request handler that call it (handle in         *)
(* internal/proxy/passthrough.go): Allow before the body is read, Observe  *)
(* in the bookkeeping that runs after the response, and the deferred       *)
(* Release of a probe that reached no outcome.  Every handler runs in a    *)
(* goroutine of its own; each breaker method holds b.mu from end to end,   *)
(* so it is one step.                                                      *)
(***************************************************************************)
EXTENDS Integers, FiniteSets

CONSTANTS
    Req,        \* requests the agents may have open at the proxy
    Failures,   \* BreakerSettings.Failures; 0 disables the breaker
    Cooldown    \* BreakerSettings.Cooldown, in ticks of the clock

ASSUME BreakerAssumption == Failures \in Nat /\ Cooldown \in Nat

VARIABLES
    failures,   \* consecutive retryable failures, saturating at Failures
    openFor,    \* ticks since openedAt, saturating at Cooldown; Closed if zero
    probing,    \* the half-open probe slot is taken
    phase,      \* where each request's handler is
    probe       \* the handler's own copy of Allow's second result

vars == <<failures, openFor, probing, phase, probe>>
breakerVars == <<failures, openFor, probing>>

Closed == -1                       \* openedAt.IsZero()
Enabled == Failures > 0
Saturate(n, limit) == IF n > limit THEN limit ELSE n

InFlight(r) == phase[r] \in {"inside", "upstream"}
ProbesInFlight == {r \in Req : InFlight(r) /\ probe[r]}

Init ==
    /\ failures = 0
    /\ openFor = Closed
    /\ probing = FALSE
    /\ phase = [r \in Req |-> "idle"]
    /\ probe = [r \in Req |-> FALSE]

(***************************************************************************)
(* Allow: what the breaker answers, in the order of its returns.           *)
(***************************************************************************)
Passes == ~Enabled \/ openFor = Closed
CoolingDown == ~Passes /\ openFor < Cooldown
HalfOpen == ~Passes /\ ~CoolingDown /\ ~probing

\* The circuit is closed, or the breaker is off: the request goes ahead.
AllowClosed(r) ==
    /\ phase[r] = "idle" /\ Passes
    /\ phase' = [phase EXCEPT ![r] = "inside"]
    /\ probe' = [probe EXCEPT ![r] = FALSE]
    /\ UNCHANGED breakerVars

\* The cooldown is over and the slot is free: the request is the probe.
AllowProbe(r) ==
    /\ phase[r] = "idle" /\ HalfOpen
    /\ probing' = TRUE
    /\ phase' = [phase EXCEPT ![r] = "inside"]
    /\ probe' = [probe EXCEPT ![r] = TRUE]
    /\ UNCHANGED <<failures, openFor>>

\* Refused locally, with a wait; the handler returns without a Release,
\* because its defer is only installed after Allow said yes.
AllowRefused(r) ==
    /\ phase[r] = "idle" /\ ~Passes /\ ~HalfOpen
    /\ phase' = [phase EXCEPT ![r] = "refused"]
    /\ UNCHANGED <<failures, openFor, probing, probe>>

\* The agent reads the 503 and may ask again.
Again(r) ==
    /\ phase[r] = "refused"
    /\ phase' = [phase EXCEPT ![r] = "idle"]
    /\ UNCHANGED <<failures, openFor, probing, probe>>

\* Every local check passed and the reverse proxy has the request.
Forward(r) ==
    /\ phase[r] = "inside"
    /\ phase' = [phase EXCEPT ![r] = "upstream"]
    /\ UNCHANGED <<failures, openFor, probing, probe>>

(***************************************************************************)
(* The handler's ways out.                                                 *)
(***************************************************************************)
\* Slip: the success path closes the circuit and forgets the count.
ObserveKeepsCount(retryable) ==
    IF retryable
    THEN /\ failures' = Saturate(failures + 1, Failures)
         /\ probing' = FALSE
         /\ openFor' = IF failures + 1 >= Failures THEN 0 ELSE openFor
    ELSE openFor' = Closed /\ probing' = FALSE /\ UNCHANGED failures

\* Breaker.Observe(retryable).
Observe(retryable) ==
    IF ~Enabled THEN UNCHANGED breakerVars
    ELSE IF retryable
    THEN /\ failures' = Saturate(failures + 1, Failures)
         /\ probing' = FALSE
         /\ openFor' = IF failures + 1 >= Failures THEN 0 ELSE openFor
    ELSE /\ failures' = 0
         /\ openFor' = Closed
         /\ probing' = FALSE

\* Slip: a probe that reached no outcome keeps its slot.
ReleaseForgotten == UNCHANGED breakerVars

\* Breaker.Release().
Release ==
    /\ probing' = IF Enabled THEN FALSE ELSE probing
    /\ UNCHANGED <<failures, openFor>>

\* The provider answered, or the connection to it failed: the bookkeeping
\* observes that, whoever asked, and sets observed so nothing is released.
Outcome(r, retryable) ==
    /\ phase[r] = "upstream"
    /\ Observe(retryable)
    /\ phase' = [phase EXCEPT ![r] = "idle"]
    /\ probe' = [probe EXCEPT ![r] = FALSE]

\* Refused by a later check, a body that cannot be read, or a handler that
\* panics before any header: no outcome.  A probe gives its slot back.
NoOutcome(r) ==
    /\ InFlight(r)
    /\ IF probe[r] THEN Release ELSE UNCHANGED breakerVars
    /\ phase' = [phase EXCEPT ![r] = "idle"]
    /\ probe' = [probe EXCEPT ![r] = FALSE]

\* b.now() moves on; past the cooldown every later instant answers alike.
Tick ==
    /\ openFor # Closed /\ openFor < Cooldown
    /\ openFor' = openFor + 1
    /\ UNCHANGED <<failures, probing, phase, probe>>

Allow(r) == AllowClosed(r) \/ AllowProbe(r) \/ AllowRefused(r)
Leave(r) == NoOutcome(r) \/ \E retryable \in BOOLEAN : Outcome(r, retryable)

Next == Tick \/ \E r \in Req : Allow(r) \/ Again(r) \/ Forward(r) \/ Leave(r)

(***************************************************************************)
(* The clock advances, every handler ends (the reverse proxy and the       *)
(* client's connection are bounded by their own timeouts), and a refused   *)
(* agent retries.  What the provider answers is never assumed.             *)
(***************************************************************************)
Fairness ==
    /\ WF_vars(Tick)
    /\ \A r \in Req : WF_vars(Allow(r)) /\ WF_vars(Again(r)) /\ WF_vars(Leave(r))

Spec == Init /\ [][Next]_vars
FairSpec == Spec /\ Fairness

-----------------------------------------------------------------------------
TypeOK ==
    /\ failures \in 0..Failures
    /\ openFor \in {Closed} \cup 0..Cooldown
    /\ probing \in BOOLEAN
    /\ phase \in [Req -> {"idle", "refused", "inside", "upstream"}]
    /\ probe \in [Req -> BOOLEAN]

\* A taken probe slot always has a request in flight that will clear it: no
\* interleaving of stragglers, probes and aborted probes leaves the slot taken
\* with nobody behind it, which would refuse every request until a restart
\* (the reason Release exists).
SlotHasHolder == probing => ProbesInFlight # {}

\* The circuit is open exactly while the run of failures is at its limit, so a
\* failed probe re-opens at once instead of counting up from zero, and no
\* late outcome can leave an open circuit without the count that opened it.
OpenIffExhausted == Enabled => (openFor # Closed <=> failures = Failures)

\* What Allow, Observe and Release keep between them, in whatever order the
\* outcomes of overlapping requests arrive.
CircuitIsSound == SlotHasHolder /\ OpenIffExhausted

\* Whatever the provider answers, an open circuit does not stay shut for
\* ever: it closes, or some request is let through as a probe.
OpenIsProbed == (openFor # Closed) ~> (openFor = Closed \/ ProbesInFlight # {})

=============================================================================
