----------------------------- MODULE Forwarding -----------------------------
(***************************************************************************)
(* What happens to a request between the breaker's Allow and its Observe:  *)
(* the retrying transport (internal/proxy/retry.go) below the reverse      *)
(* proxy, the reverse proxy's error handler (server.go) and the deferred   *)
(* bookkeeping (passthrough.go).  A detailed version of Breaker: the       *)
(* "upstream" phase of a request is spelled out as the attempts the        *)
(* transport makes, the sleeps between them, and a client that may leave   *)
(* at any moment.                                                          *)
(*                                                                         *)
(* Durations are numbers of nanoseconds of a small word: the doubling of   *)
(* the backoff and the seconds of a Retry-After header wrap as int64 does. *)
(***************************************************************************)
EXTENDS Breaker

CONSTANTS
    Attempts,     \* RetrySettings.Attempts; 0 is off
    BaseDelay, MaxDelay,
    RetryAfters,  \* the seconds a Retry-After header may ask for
    Second,       \* time.Second
    Word          \* two to the number of bits of a time.Duration

ASSUME RetryAssumption ==
    /\ Attempts \in Nat /\ RetryAfters \subseteq Nat
    /\ Second \in Nat /\ Word \in Nat \ {0}
    /\ BaseDelay \in 1..MaxDelay /\ MaxDelay \in Nat /\ 2 * MaxDelay < Word

VARIABLES
    leg,        \* where the request is below the reverse proxy
    attempt,    \* RoundTrip's loop counter
    client,     \* the client still waits: the request's context is live
    wait,       \* the delay the transport sleeps for
    bad,        \* what the bookkeeping will observe: upstreamFailed, or the status
    \* What really happened, for the properties only:
    asked,      \* the Retry-After of the response being retried, or NoHeader
    billed,     \* attempts of this request the provider may have charged for
    faulted     \* the provider, or the way to it, has failed some request

legVars == <<leg, attempt, client, wait, bad, asked, billed>>
fvars == <<vars, legVars, faulted>>

NoHeader == -1
Signed(n) == LET m == n % Word IN IF 2 * m >= Word THEN m - Word ELSE m

FInit ==
    /\ Init
    /\ leg = [r \in Req |-> "none"]
    /\ attempt = [r \in Req |-> 0]
    /\ client = [r \in Req |-> TRUE]
    /\ wait = [r \in Req |-> 0]
    /\ bad = [r \in Req |-> FALSE]
    /\ asked = [r \in Req |-> NoHeader]
    /\ billed = [r \in Req |-> 0]
    /\ faulted = FALSE

-----------------------------------------------------------------------------
\* retryAfter, in its form in seconds.
retryAfter(secs) == Signed(secs * Second)

\* Slip: the doubled backoff is not held under the ceiling when it wraps.
backoffUnclamped(n) ==
    LET doubled == Signed(BaseDelay * 2^n) IN
    IF doubled <= 0 THEN Word - doubled ELSE doubled

\* The doubled backoff, MaxDelay once it has passed it or wrapped round.
backoff(n) ==
    LET doubled == Signed(BaseDelay * 2^n) IN
    IF doubled \in 1..MaxDelay THEN doubled ELSE MaxDelay

\* delay: the waits it may pick; none when a Retry-After passes the ceiling.
delay(n, secs) ==
    IF secs # NoHeader
    THEN {d \in {retryAfter(secs)} : d <= MaxDelay}
    ELSE 0..backoff(n)

\* One turn of RoundTrip's loop ends: go to sleep before the next attempt, or
\* hand what happened back to the reverse proxy.
Sleep(r, d, secs) ==
    /\ leg' = [leg EXCEPT ![r] = "sleeping"]
    /\ wait' = [wait EXCEPT ![r] = d]
    /\ asked' = [asked EXCEPT ![r] = secs]
    /\ UNCHANGED <<attempt, client, bad>>
Return(r, failed) ==
    /\ leg' = [leg EXCEPT ![r] = "returned"]
    /\ bad' = [bad EXCEPT ![r] = failed]
    /\ wait' = [wait EXCEPT ![r] = 0]
    /\ UNCHANGED <<attempt, client, asked>>

\* Every local check passed; the reverse proxy starts the round trip.
Dispatch(r) ==
    /\ Forward(r)
    /\ leg' = [leg EXCEPT ![r] = "trying"]
    /\ UNCHANGED <<attempt, client, wait, bad, asked, billed, faulted>>

\* Refused or unreadable before it was forwarded.
Refuse(r) ==
    /\ phase[r] = "inside"
    /\ NoOutcome(r)
    /\ client' = [client EXCEPT ![r] = TRUE]
    /\ UNCHANGED <<leg, attempt, wait, bad, asked, billed, faulted>>

\* The client goes away: the request's context is cancelled.
ClientLeaves(r) ==
    /\ InFlight(r) /\ client[r]
    /\ client' = [client EXCEPT ![r] = FALSE]
    /\ UNCHANGED <<vars, leg, attempt, wait, bad, asked, billed, faulted>>

\* A status the breaker does not count: returned, and charged for.
Accept(r) ==
    /\ leg[r] = "trying"
    /\ Return(r, FALSE)
    /\ billed' = [billed EXCEPT ![r] = @ + 1]
    /\ UNCHANGED <<vars, faulted>>

\* A retryable status, with or without a Retry-After: drained and slept on, or
\* returned when the attempts are used up or the header asks for too long.
Reject(r, secs) ==
    /\ leg[r] = "trying"
    /\ LET delays == IF attempt[r] < Attempts THEN delay(attempt[r], secs) ELSE {} IN
       \/ \E d \in delays : Sleep(r, d, secs)
       \/ delays = {} /\ Return(r, TRUE)
    /\ faulted' = TRUE
    /\ UNCHANGED <<vars, billed>>

\* The dial failed.  The transport asks whether the client is still there
\* before it sleeps; any error makes the error handler set upstreamFailed.
DialFails(r) ==
    /\ leg[r] = "trying"
    /\ IF attempt[r] < Attempts /\ client[r]
       THEN \E d \in delay(attempt[r], NoHeader) : Sleep(r, d, NoHeader)
       ELSE Return(r, TRUE)
    /\ faulted' = TRUE
    /\ UNCHANGED <<vars, billed>>

\* Slip: every transport error is taken for one before the request was sent.
ConnectionLostRetried(r) ==
    /\ leg[r] = "trying"
    /\ IF attempt[r] < Attempts /\ client[r]
       THEN \E d \in delay(attempt[r], NoHeader) : Sleep(r, d, NoHeader)
       ELSE Return(r, TRUE)
    /\ billed' = [billed EXCEPT ![r] = @ + 1]
    /\ faulted' = TRUE
    /\ UNCHANGED vars

\* The connection broke, or no header came in time, after the request was
\* sent (beforeRequestSent is false): it may have been charged for, so it is
\* never sent again.
ConnectionLost(r) ==
    /\ leg[r] = "trying"
    /\ Return(r, TRUE)
    /\ billed' = [billed EXCEPT ![r] = @ + 1]
    /\ faulted' = TRUE
    /\ UNCHANGED vars

\* The client's absence ends the attempt, which may have reached the provider.
\* The error handler runs for this error as for any other.
Abandoned(r, sent) ==
    /\ leg[r] = "trying" /\ ~client[r]
    /\ Return(r, TRUE)
    /\ billed' = [billed EXCEPT ![r] = @ + sent]
    /\ UNCHANGED <<vars, faulted>>

\* sleepContext: the timer fires, even when the context is done as well, and
\* the request is cloned with its body reopened.
Wake(r) ==
    /\ leg[r] = "sleeping"
    /\ leg' = [leg EXCEPT ![r] = "trying"]
    /\ attempt' = [attempt EXCEPT ![r] = @ + 1]
    /\ wait' = [wait EXCEPT ![r] = 0]
    /\ asked' = [asked EXCEPT ![r] = NoHeader]
    /\ UNCHANGED <<vars, client, bad, billed, faulted>>

\* sleepContext: the context is done first; the response was drained already.
SleepCut(r) ==
    /\ leg[r] = "sleeping" /\ ~client[r]
    /\ Return(r, TRUE)
    /\ UNCHANGED <<vars, billed, faulted>>

\* Slip: only failures are observed, so a probe that succeeds is never told.
BookkeepingForgets(r) ==
    /\ leg[r] = "returned"
    /\ IF bad[r] THEN Outcome(r, TRUE)
       ELSE /\ phase' = [phase EXCEPT ![r] = "idle"]
            /\ probe' = [probe EXCEPT ![r] = FALSE]
            /\ UNCHANGED breakerVars
    /\ leg' = [leg EXCEPT ![r] = "none"]
    /\ attempt' = [attempt EXCEPT ![r] = 0]
    /\ client' = [client EXCEPT ![r] = TRUE]
    /\ bad' = [bad EXCEPT ![r] = FALSE]
    /\ asked' = [asked EXCEPT ![r] = NoHeader]
    /\ billed' = [billed EXCEPT ![r] = 0]
    /\ UNCHANGED <<wait, faulted>>

\* The response has been written, in whole or until the client left, and the
\* deferred bookkeeping observes it.
Bookkeeping(r) ==
    /\ leg[r] = "returned"
    /\ Outcome(r, bad[r])
    /\ leg' = [leg EXCEPT ![r] = "none"]
    /\ attempt' = [attempt EXCEPT ![r] = 0]
    /\ client' = [client EXCEPT ![r] = TRUE]
    /\ bad' = [bad EXCEPT ![r] = FALSE]
    /\ asked' = [asked EXCEPT ![r] = NoHeader]
    /\ billed' = [billed EXCEPT ![r] = 0]
    /\ UNCHANGED <<wait, faulted>>

\* Steps of the breaker that no transport takes part in.
Elsewhere(r) == (Allow(r) \/ Again(r)) /\ UNCHANGED <<legVars, faulted>>

RoundTrip(r) ==
    \/ Accept(r) \/ DialFails(r) \/ ConnectionLost(r)
    \/ \E secs \in RetryAfters \cup {NoHeader} : Reject(r, secs)
    \/ \E sent \in {0, 1} : Abandoned(r, sent)
    \/ Wake(r) \/ SleepCut(r)

Handle(r) == Dispatch(r) \/ Refuse(r) \/ RoundTrip(r) \/ Bookkeeping(r)

FNext ==
    \/ Tick /\ UNCHANGED <<legVars, faulted>>
    \/ \E r \in Req : Elsewhere(r) \/ Handle(r) \/ ClientLeaves(r)

(***************************************************************************)
(* Every round trip ends: the transport has timeouts on the dial, on the   *)
(* handshake and on the header, and a timer ends every sleep.  Nothing is  *)
(* assumed of the answer or of the client.                                 *)
(***************************************************************************)
FSpec ==
    /\ FInit /\ [][FNext]_fvars
    /\ WF_fvars(Tick /\ UNCHANGED <<legVars, faulted>>)
    /\ \A r \in Req :
         /\ WF_fvars(Allow(r) /\ UNCHANGED <<legVars, faulted>>)
         /\ WF_fvars(Again(r) /\ UNCHANGED <<legVars, faulted>>)
         /\ WF_fvars(Handle(r))

-----------------------------------------------------------------------------
FTypeOK ==
    /\ TypeOK
    /\ leg \in [Req -> {"none", "trying", "sleeping", "returned"}]
    /\ attempt \in [Req -> 0..Attempts]
    /\ client \in [Req -> BOOLEAN]
    /\ wait \in [Req -> Int]
    /\ bad \in [Req -> BOOLEAN]
    /\ asked \in [Req -> {NoHeader} \cup RetryAfters]
    /\ billed \in [Req -> Nat]
    /\ faulted \in BOOLEAN

\* However often the transport sends a request again, at most one of the
\* attempts can have been charged for: a turn is not paid for twice because
\* the proxy retried it, and a lost connection ends the retries.
BilledAtMostOnce == \A r \in Req : billed[r] <= 1

\* No sleep is longer than the ceiling an agent's user sits through, even when
\* the doubled backoff passes or wraps round the ceiling, and none is shorter
\* than a Retry-After that fits under it.
WaitsAsTold == FTypeOK /\
    \A r \in Req :
        /\ wait[r] <= MaxDelay
        /\ leg[r] = "sleeping" /\ asked[r] # NoHeader /\ asked[r] * Second <= MaxDelay
              => wait[r] >= asked[r] * Second

\* What the transport owes the user whose request it repeats: no second charge,
\* and no sleep but the one it was told.
RetriesAreSound == BilledAtMostOnce /\ WaitsAsTold

\* The breaker as the whole request path uses it is the breaker of the
\* abstract specification, fairness included: each request reaches exactly one
\* outcome however many attempts it took, and always reaches one.
BreakerSeesOneOutcome == FairSpec

\* "A client that left before any response is no observation of the provider"
\* (passthrough.go): the circuit is open only when something the provider did,
\* or a failure on the way to it, is among the reasons.
OpenBlamesProvider == openFor # Closed => faulted

=============================================================================
