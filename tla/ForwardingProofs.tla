-------------------------- MODULE ForwardingProofs --------------------------
(***************************************************************************)
(* The breaker, and the retrying transport over it, for any number of      *)
(* requests, any threshold, any settings and any headers a provider may    *)
(* send.                                                                   *)
(*                                                                         *)
(* The breaker.  The inductive invariant is the conjunction of its         *)
(* invariants and the fact that a disabled breaker takes no slot: the last *)
(* request that took the slot is still in flight while it is taken, and    *)
(* every step that ends a probe also clears the slot.                      *)
(*                                                                         *)
(* The transport.  Each step of the detailed handler is a step of Breaker  *)
(* or leaves the breaker alone, so that what is shown of Breaker holds     *)
(* here.  The rest is the transport's own invariant: nothing is charged    *)
(* for before RoundTrip returns, a sleeping request has an attempt left,   *)
(* and the delay it sleeps for was computed from the header it was told.   *)
(***************************************************************************)
EXTENDS Forwarding, TLAPS

\* A breaker with Failures = 0 never hands out its probe slot.
OffTakesNoSlot == ~Enabled => ~probing

BreakerInv == TypeOK /\ SlotHasHolder /\ OpenIffExhausted /\ OffTakesNoSlot

\* The breaker starts closed, with no failures counted and no probe out.
LEMMA InitInv == Init => BreakerInv
<1>1. Init => TypeOK
  <2>1. Init => failures \in 0..Failures /\ openFor \in {Closed} \cup 0..Cooldown
    BY BreakerAssumption DEF Init
  <2> QED BY <2>1 DEF Init, TypeOK
<1>2. Init => SlotHasHolder /\ OffTakesNoSlot
  BY DEF Init, SlotHasHolder, OffTakesNoSlot
<1>3. Init => OpenIffExhausted
  BY BreakerAssumption DEF Init, OpenIffExhausted, Enabled, Closed
<1> QED BY <1>1, <1>2, <1>3 DEF BreakerInv

\* Observe keeps the breaker's own fields typed, leaves the slot free, and keeps the count and the open circuit in step.
LEMMA ObserveStep ==
  ASSUME BreakerInv, NEW retryable \in BOOLEAN, Observe(retryable)
  PROVE  /\ failures' \in 0..Failures
         /\ openFor' \in {Closed} \cup 0..Cooldown
         /\ probing' \in BOOLEAN
         /\ ~probing'
         /\ OpenIffExhausted'
<1> USE BreakerAssumption
<1>1. CASE ~Enabled
  BY <1>1 DEF BreakerInv, TypeOK, OpenIffExhausted, OffTakesNoSlot, Observe, breakerVars
<1>2. CASE Enabled /\ retryable
  <2>1. /\ failures' = Saturate(failures + 1, Failures)
        /\ ~probing' /\ probing' \in BOOLEAN
        /\ openFor' = IF failures + 1 >= Failures THEN 0 ELSE openFor
    BY <1>2 DEF Observe
  <2>2. failures' \in 0..Failures /\ openFor' \in {Closed} \cup 0..Cooldown
    BY <2>1 DEF BreakerInv, TypeOK, Saturate
  <2>3. OpenIffExhausted'
    BY <2>1 DEF BreakerInv, TypeOK, OpenIffExhausted, Saturate, Enabled, Closed
  <2> QED BY <1>2, <2>1, <2>2, <2>3
<1>3. CASE Enabled /\ ~retryable
  <2>1. failures' = 0 /\ openFor' = Closed /\ ~probing' /\ probing' \in BOOLEAN
    BY <1>3 DEF Observe
  <2>2. failures' \in 0..Failures /\ openFor' \in {Closed} \cup 0..Cooldown
    BY <2>1
  <2>3. OpenIffExhausted'
    BY <1>3, <2>1 DEF OpenIffExhausted, Enabled, Closed
  <2> QED BY <1>3, <2>1, <2>2, <2>3
<1> QED BY <1>1, <1>2, <1>3

\* One step of any request's handler, or of the clock, keeps the invariant.
LEMMA StepInv == BreakerInv /\ [Next]_vars => BreakerInv'
<1> SUFFICES ASSUME BreakerInv, [Next]_vars PROVE BreakerInv'
  OBVIOUS
<1> USE BreakerAssumption
<1>1. ASSUME NEW r \in Req, AllowClosed(r) PROVE BreakerInv'
  BY <1>1 DEF BreakerInv, TypeOK, SlotHasHolder, OpenIffExhausted, OffTakesNoSlot,
       AllowClosed, ProbesInFlight, InFlight, Passes, breakerVars, Enabled, Closed
<1>2. ASSUME NEW r \in Req, AllowProbe(r) PROVE BreakerInv'
  BY <1>2 DEF BreakerInv, TypeOK, SlotHasHolder, OpenIffExhausted, OffTakesNoSlot,
       AllowProbe, HalfOpen, Passes, ProbesInFlight, InFlight, Enabled, Closed
<1>3. ASSUME NEW r \in Req, AllowRefused(r) PROVE BreakerInv'
  BY <1>3 DEF BreakerInv, TypeOK, SlotHasHolder, OpenIffExhausted, OffTakesNoSlot,
       AllowRefused, ProbesInFlight, InFlight, Enabled, Closed
<1>4. ASSUME NEW r \in Req, Again(r) PROVE BreakerInv'
  BY <1>4 DEF BreakerInv, TypeOK, SlotHasHolder, OpenIffExhausted, OffTakesNoSlot,
       Again, ProbesInFlight, InFlight, Enabled, Closed
<1>5. ASSUME NEW r \in Req, Forward(r) PROVE BreakerInv'
  BY <1>5 DEF BreakerInv, TypeOK, SlotHasHolder, OpenIffExhausted, OffTakesNoSlot,
       Forward, ProbesInFlight, InFlight, Enabled, Closed
<1>6. ASSUME NEW r \in Req, NEW retryable \in BOOLEAN, Outcome(r, retryable)
      PROVE BreakerInv'
  <2>1. OpenIffExhausted'
    BY <1>6, ObserveStep DEF Outcome
  <2>2. TypeOK'
    BY <1>6, ObserveStep DEF Outcome, BreakerInv, TypeOK
  <2>3. SlotHasHolder' /\ OffTakesNoSlot'
    BY <1>6, ObserveStep DEF Outcome, SlotHasHolder, OffTakesNoSlot
  <2> QED BY <2>1, <2>2, <2>3 DEF BreakerInv
<1>7. ASSUME NEW r \in Req, NoOutcome(r) PROVE BreakerInv'
  BY <1>7 DEF BreakerInv, TypeOK, SlotHasHolder, OpenIffExhausted, OffTakesNoSlot,
       NoOutcome, Release, ProbesInFlight, InFlight, breakerVars, Enabled, Closed
<1>8. CASE Tick
  BY <1>8 DEF BreakerInv, TypeOK, SlotHasHolder, OpenIffExhausted, OffTakesNoSlot,
       Tick, ProbesInFlight, InFlight, Enabled, Closed
<1>9. CASE UNCHANGED vars
  BY <1>9 DEF BreakerInv, TypeOK, SlotHasHolder, OpenIffExhausted, OffTakesNoSlot, vars,
       ProbesInFlight, InFlight, Enabled, Closed
<1> QED
  BY <1>1, <1>2, <1>3, <1>4, <1>5, <1>6, <1>7, <1>8, <1>9
     DEF Next, Allow, Leave

\* The breaker's fields stay in their types: the count never passes the
\* threshold and the time open never passes the cooldown.
THEOREM BreakerTypeCorrect == Spec => []TypeOK
<1>1. BreakerInv => TypeOK
  BY DEF BreakerInv
<1> QED BY <1>1, InitInv, StepInv, PTL DEF Spec

\* For any set of requests, no order of stragglers, probes and aborted probes
\* leaves Breaker.probing set with no probe in flight to clear it.
THEOREM SlotIsNeverLeaked == Spec => []SlotHasHolder
<1>1. BreakerInv => SlotHasHolder
  BY DEF BreakerInv
<1> QED BY <1>1, InitInv, StepInv, PTL DEF Spec

\* For any threshold, the circuit is open exactly while the count of
\* consecutive failures stands at the threshold.
THEOREM OpenMeansExhausted == Spec => []OpenIffExhausted
<1>1. BreakerInv => OpenIffExhausted
  BY DEF BreakerInv
<1> QED BY <1>1, InitInv, StepInv, PTL DEF Spec

\* Both together, which is what Allow, Observe and Release owe each other: for
\* any threshold and any number of overlapping requests the circuit is open for
\* its reason, and an open circuit can still be probed.
THEOREM CircuitIsAlwaysSound == Spec => []CircuitIsSound
<1>1. BreakerInv => CircuitIsSound
  BY DEF BreakerInv, CircuitIsSound
<1> QED BY <1>1, InitInv, StepInv, PTL DEF Spec

-----------------------------------------------------------------------------
(* The transport. *)

LegTypeOK ==
    /\ leg \in [Req -> {"none", "trying", "sleeping", "returned"}]
    /\ attempt \in [Req -> 0..Attempts]
    /\ client \in [Req -> BOOLEAN]
    /\ wait \in [Req -> Int]
    /\ bad \in [Req -> BOOLEAN]
    /\ asked \in [Req -> {NoHeader} \cup RetryAfters]
    /\ billed \in [Req -> Nat]
    /\ faulted \in BOOLEAN

\* A request is below the reverse proxy exactly while its handler is, one whose
\* round trip has not returned has been charged for by nobody, and one that
\* sleeps may try again.
Uncharged ==
    \A r \in Req :
        /\ leg[r] = "none" <=> phase[r] # "upstream"
        /\ billed[r] <= 1
        /\ leg[r] # "returned" => billed[r] = 0
        /\ leg[r] = "sleeping" => attempt[r] < Attempts

Waits ==
    \A r \in Req :
        /\ wait[r] <= MaxDelay
        /\ leg[r] = "sleeping" /\ asked[r] # NoHeader /\ asked[r] * Second <= MaxDelay
              => wait[r] >= asked[r] * Second

FInv == BreakerInv /\ LegTypeOK /\ Uncharged /\ Waits

-----------------------------------------------------------------------------
\* What a Duration of a small number is: the number.
LEMMA SignedOfSmall ==
  ASSUME NEW n \in Nat, 2 * n < Word
  PROVE  Signed(n) = n
<1>1. n % Word = n
  BY RetryAssumption
<1> QED BY <1>1, RetryAssumption DEF Signed

\* A wrapped Duration is a number all the same.
LEMMA SignedIsInt ==
  ASSUME NEW n \in Int
  PROVE  Signed(n) \in Int
<1>1. n % Word \in Int
  BY RetryAssumption
<1> QED BY <1>1, RetryAssumption DEF Signed

\* Every delay is a number that does not pass the ceiling, and one taken from
\* a Retry-After that fits under the ceiling is what the header asked for.
LEMMA DelayFits ==
  ASSUME NEW n, NEW secs \in RetryAfters \cup {NoHeader}, NEW d \in delay(n, secs)
  PROVE  /\ d \in Int /\ d <= MaxDelay
         /\ secs # NoHeader /\ secs * Second <= MaxDelay => d >= secs * Second
<1> USE RetryAssumption
<1>1. CASE secs = NoHeader
  <2>1. backoff(n) \in 0..MaxDelay
    BY DEF backoff
  <2>2. d \in 0..backoff(n)
    BY <1>1 DEF delay
  <2> QED BY <1>1, <2>1, <2>2
<1>2. CASE secs # NoHeader
  <2>1. secs \in Nat /\ d = retryAfter(secs) /\ d <= MaxDelay
    BY <1>2 DEF delay
  <2>2. secs * Second \in Nat
    BY <2>1
  <2>3. d \in Int
    BY <2>1, <2>2, SignedIsInt DEF retryAfter
  <2>4. ASSUME secs * Second <= MaxDelay PROVE d = secs * Second
    <3>1. 2 * (secs * Second) < Word
      BY <2>2, <2>4
    <3> QED BY <2>1, <2>2, <3>1, SignedOfSmall DEF retryAfter
  <2>5. secs * Second <= MaxDelay => d >= secs * Second
    BY <2>2, <2>4
  <2> QED BY <2>1, <2>3, <2>5
<1> QED BY <1>1, <1>2

-----------------------------------------------------------------------------
\* Every step of the detailed handler is a step of the breaker's specification,
\* or none of it: the round trip is invisible to the breaker but for the one
\* outcome the bookkeeping observes.
LEMMA StepRefines ==
  ASSUME LegTypeOK, [FNext]_fvars
  PROVE  [Next]_vars
<1>1. CASE Tick /\ UNCHANGED <<legVars, faulted>>
  BY <1>1 DEF Next
<1>2. ASSUME NEW r \in Req, Elsewhere(r) PROVE Next
  BY <1>2 DEF Elsewhere, Next
<1>3. ASSUME NEW r \in Req, Dispatch(r) PROVE Next
  BY <1>3 DEF Dispatch, Next
<1>4. ASSUME NEW r \in Req, Refuse(r) PROVE Next
  BY <1>4 DEF Refuse, Next, Leave
<1>5. ASSUME NEW r \in Req, RoundTrip(r) PROVE UNCHANGED vars
  BY <1>5 DEF RoundTrip, Accept, DialFails, ConnectionLost, Reject, Abandoned, Wake, SleepCut
<1>6. ASSUME NEW r \in Req, Bookkeeping(r) PROVE Next
  <2>1. bad[r] \in BOOLEAN /\ Outcome(r, bad[r])
    BY <1>6 DEF Bookkeeping, LegTypeOK
  <2> QED BY <2>1 DEF Next, Leave
<1>7. ASSUME NEW r \in Req, ClientLeaves(r) PROVE UNCHANGED vars
  BY <1>7 DEF ClientLeaves
<1>8. CASE UNCHANGED fvars
  BY <1>8 DEF fvars
<1> QED BY <1>1, <1>2, <1>3, <1>4, <1>5, <1>6, <1>7, <1>8 DEF FNext, Handle

\* Nothing has been sent when the proxy starts.
LEMMA FInitInv == FInit => FInv
<1> SUFFICES ASSUME FInit PROVE FInv
  OBVIOUS
<1>1. BreakerInv
  BY InitInv DEF FInit
<1>2. LegTypeOK
  <2>1. /\ attempt \in [Req -> 0..Attempts] /\ wait \in [Req -> Int]
        /\ billed \in [Req -> Nat] /\ asked \in [Req -> {NoHeader} \cup RetryAfters]
    BY RetryAssumption DEF FInit
  <2>2. /\ leg \in [Req -> {"none", "trying", "sleeping", "returned"}]
        /\ client \in [Req -> BOOLEAN] /\ bad \in [Req -> BOOLEAN] /\ faulted \in BOOLEAN
    BY DEF FInit
  <2> QED BY <2>1, <2>2 DEF LegTypeOK
<1>3. Uncharged
  BY DEF FInit, Init, Uncharged
<1>4. Waits
  BY RetryAssumption DEF FInit, Waits
<1> QED BY <1>1, <1>2, <1>3, <1>4 DEF FInv

\* Going to sleep keeps the transport's invariant when an attempt is left and
\* the delay is one that delay computes.
LEMMA SleepInv ==
  ASSUME FInv, NEW r \in Req, leg[r] = "trying", attempt[r] < Attempts,
         NEW secs \in RetryAfters \cup {NoHeader},
         NEW d \in delay(attempt[r], secs), Sleep(r, d, secs),
         UNCHANGED <<phase, billed>>, faulted' \in BOOLEAN
  PROVE  LegTypeOK' /\ Uncharged' /\ Waits'
<1>1. /\ d \in Int /\ d <= MaxDelay
      /\ secs # NoHeader /\ secs * Second <= MaxDelay => d >= secs * Second
  BY DelayFits
<1>2. LegTypeOK'
  BY <1>1 DEF FInv, LegTypeOK, Sleep
<1>3. Uncharged'
  BY DEF FInv, LegTypeOK, Uncharged, Sleep
<1>4. Waits'
  BY <1>1 DEF FInv, LegTypeOK, Waits, Sleep
<1> QED BY <1>2, <1>3, <1>4

\* Returning to the reverse proxy keeps it, with at most one charge added.
LEMMA ReturnInv ==
  ASSUME FInv, NEW r \in Req, leg[r] \notin {"none", "returned"}, NEW failed \in BOOLEAN, Return(r, failed),
         NEW c \in {0, 1}, billed' = [billed EXCEPT ![r] = @ + c], faulted' \in BOOLEAN,
         UNCHANGED phase
  PROVE  LegTypeOK' /\ Uncharged' /\ Waits'
<1>1. LegTypeOK'
  BY DEF FInv, LegTypeOK, Return
<1>2. Uncharged'
  BY DEF FInv, LegTypeOK, Uncharged, Return
<1>3. Waits'
  BY RetryAssumption DEF FInv, LegTypeOK, Waits, Return
<1> QED BY <1>1, <1>2, <1>3

\* One step of a handler, a client or the clock keeps the invariant.
LEMMA FStepInv == FInv /\ [FNext]_fvars => FInv'
<1> SUFFICES ASSUME FInv, [FNext]_fvars PROVE FInv'
  OBVIOUS
<1> DEFINE Legs == LegTypeOK /\ Uncharged /\ Waits
<1>0. BreakerInv'
  BY StepRefines, StepInv DEF FInv
<1>1. ASSUME Tick, UNCHANGED <<legVars, faulted>> PROVE Legs'
  BY <1>1 DEF Tick, BreakerInv, TypeOK, FInv, LegTypeOK, Uncharged, Waits, legVars
<1>2. ASSUME NEW r \in Req, Elsewhere(r) PROVE Legs'
  BY <1>2 DEF Elsewhere, Allow, AllowClosed, AllowProbe, AllowRefused, Again,
       BreakerInv, TypeOK, FInv, LegTypeOK, Uncharged, Waits, legVars
<1>3. ASSUME NEW r \in Req, Dispatch(r) PROVE Legs'
  BY <1>3 DEF Dispatch, Forward, BreakerInv, TypeOK, FInv, LegTypeOK, Uncharged, Waits
<1>4. ASSUME NEW r \in Req, Refuse(r) PROVE Legs'
  BY <1>4 DEF Refuse, NoOutcome, BreakerInv, TypeOK, FInv, LegTypeOK, Uncharged, Waits
<1>5. ASSUME NEW r \in Req, Accept(r) PROVE Legs'
  <2>1. Return(r, FALSE) /\ billed' = [billed EXCEPT ![r] = @ + 1] /\ faulted' \in BOOLEAN
        /\ UNCHANGED phase
    BY <1>5 DEF Accept, FInv, LegTypeOK, vars
  <2> QED BY <1>5, <2>1, ReturnInv DEF Accept
<1>6. ASSUME NEW r \in Req, NEW secs \in RetryAfters \cup {NoHeader}, Reject(r, secs)
      PROVE Legs'
  <2>1. UNCHANGED <<phase, billed>> /\ faulted' \in BOOLEAN /\ leg[r] = "trying"
    BY <1>6 DEF Reject, vars
  <2>2. CASE attempt[r] < Attempts /\ \E d \in delay(attempt[r], secs) : Sleep(r, d, secs)
    BY <2>1, <2>2, SleepInv
  <2>3. CASE Return(r, TRUE)
    <3>1. billed' = [billed EXCEPT ![r] = @ + 0]
      BY <2>1 DEF FInv, LegTypeOK
    <3> QED BY <2>1, <2>3, <3>1, ReturnInv
  <2> QED BY <1>6, <2>2, <2>3 DEF Reject
<1>7. ASSUME NEW r \in Req, DialFails(r) PROVE Legs'
  <2>1. UNCHANGED <<phase, billed>> /\ faulted' \in BOOLEAN /\ leg[r] = "trying"
    BY <1>7 DEF DialFails, vars
  <2>2. CASE attempt[r] < Attempts /\ \E d \in delay(attempt[r], NoHeader) : Sleep(r, d, NoHeader)
    BY <2>1, <2>2, SleepInv
  <2>3. CASE Return(r, TRUE)
    <3>1. billed' = [billed EXCEPT ![r] = @ + 0]
      BY <2>1 DEF FInv, LegTypeOK
    <3> QED BY <2>1, <2>3, <3>1, ReturnInv
  <2> QED BY <1>7, <2>2, <2>3 DEF DialFails
<1>8. ASSUME NEW r \in Req, ConnectionLost(r) PROVE Legs'
  <2>1. Return(r, TRUE) /\ billed' = [billed EXCEPT ![r] = @ + 1] /\ faulted' \in BOOLEAN
        /\ UNCHANGED phase
    BY <1>8 DEF ConnectionLost, vars
  <2> QED BY <1>8, <2>1, ReturnInv DEF ConnectionLost
<1>9. ASSUME NEW r \in Req, NEW sent \in {0, 1}, Abandoned(r, sent) PROVE Legs'
  <2>1. Return(r, TRUE) /\ billed' = [billed EXCEPT ![r] = @ + sent] /\ faulted' \in BOOLEAN
        /\ UNCHANGED phase
    BY <1>9 DEF Abandoned, FInv, LegTypeOK, vars
  <2> QED BY <1>9, <2>1, ReturnInv DEF Abandoned
<1>10. ASSUME NEW r \in Req, Wake(r) PROVE Legs'
  BY <1>10, RetryAssumption DEF Wake, vars, FInv, LegTypeOK, Uncharged, Waits
<1>11. ASSUME NEW r \in Req, SleepCut(r) PROVE Legs'
  <2>1. Return(r, TRUE) /\ faulted' \in BOOLEAN /\ UNCHANGED <<phase, billed>>
    BY <1>11 DEF SleepCut, FInv, LegTypeOK, vars
  <2>2. billed' = [billed EXCEPT ![r] = @ + 0]
    BY <2>1 DEF FInv, LegTypeOK
  <2> QED BY <1>11, <2>1, <2>2, ReturnInv DEF SleepCut
<1>12. ASSUME NEW r \in Req, Bookkeeping(r) PROVE Legs'
  BY <1>12, RetryAssumption DEF Bookkeeping, Outcome, BreakerInv, TypeOK, FInv, LegTypeOK, Uncharged, Waits
<1>13. ASSUME NEW r \in Req, ClientLeaves(r) PROVE Legs'
  BY <1>13 DEF ClientLeaves, vars, FInv, LegTypeOK, Uncharged, Waits
<1>14. ASSUME UNCHANGED fvars PROVE Legs'
  BY <1>14 DEF fvars, legVars, vars, FInv, LegTypeOK, Uncharged, Waits
<1>15. Legs'
  BY <1>1, <1>2, <1>3, <1>4, <1>5, <1>6, <1>7, <1>8, <1>9, <1>10, <1>11, <1>12, <1>13, <1>14
     DEF FNext, Handle, RoundTrip
<1> QED BY <1>0, <1>15 DEF FInv

-----------------------------------------------------------------------------
\* However often the transport sends a request again, with whatever settings,
\* at most one of its attempts can have been charged for.
THEOREM RetriesAreNeverBilledTwice == FSpec => []BilledAtMostOnce
<1>1. FInv => BilledAtMostOnce
  BY DEF FInv, Uncharged, BilledAtMostOnce
<1> QED BY <1>1, FInitInv, FStepInv, PTL DEF FSpec

\* For any base delay, ceiling, word and header, no sleep passes the ceiling and
\* none is shorter than a Retry-After that fits under it.
THEOREM SleepsAreAsTold == FSpec => []WaitsAsTold
<1>1. FInv => WaitsAsTold
  BY DEF FInv, BreakerInv, LegTypeOK, Waits, WaitsAsTold, FTypeOK
<1> QED BY <1>1, FInitInv, FStepInv, PTL DEF FSpec

\* Both together: for any settings and any answers of the provider, RoundTrip
\* neither pays for a turn twice nor sleeps other than it was told.
THEOREM RetriesAreAlwaysSound == FSpec => []RetriesAreSound
<1> QED BY RetriesAreNeverBilledTwice, SleepsAreAsTold, PTL DEF RetriesAreSound

\* The handler with its retries implements the breaker's specification: however
\* many attempts a request makes, the breaker sees no step it does not allow.
THEOREM RetriesAreInvisible == FSpec => Spec
<1>1. FInit => Init
  BY DEF FInit
<1>2. FInv /\ [FNext]_fvars => [Next]_vars
  BY StepRefines DEF FInv
<1> QED BY <1>1, <1>2, FInitInv, FStepInv, PTL DEF FSpec, Spec

=============================================================================
