------------------------------ MODULE SiblingGate ------------------------------
(***************************************************************************)
(* The hold-parallel-siblings policy (internal/proxy/siblings.go) and the  *)
(* handler that drives it (handle in passthrough.go, responseTap.WriteHeader *)
(* in tap.go).  The first request with a prefix leads; the others wait for *)
(* its response to begin, for a deadline or for their own cancellation.    *)
(*                                                                         *)
(* A flight is named by the request that created it.  Closing its done     *)
(* channel is the step that wakes everyone who holds it; the code closes   *)
(* it just after the unlock, which no lock holder can observe.  Ages of    *)
(* warm entries stand for g.now().Sub(at), saturating at the window.       *)
(*                                                                         *)
(* One assumption on the clock: MaxWarm responses do not begin at a single *)
(* reading of it, so prune always finds an entry older than its own now.   *)
(***************************************************************************)
EXTENDS Integers, FiniteSets

CONSTANTS
    Req, Prefix,
    NoPrefix,       \* the empty prefix hash: never held
    Holding,        \* MaxWait > 0
    Window,         \* siblingWarmWindow, in ticks
    MaxWarm         \* maxSiblingPrefixes

Nobody == "nobody"

ASSUME GateAssumption ==
    /\ Nobody \notin Req
    /\ Holding \in BOOLEAN
    /\ Window \in Nat \ {0} /\ MaxWarm \in Nat \ {0}
    /\ NoPrefix \in Prefix

VARIABLES
    phase,      \* where each request's handler is
    prefix,     \* rec.PrefixHash of each request
    flights,    \* g.flights: the request leading each prefix
    waitsOn,    \* the flight a waiting request read from the map
    woken,      \* waiting requests whose flight has been closed
    leads,      \* requests whose release is not the no-op
    warm        \* g.warm: age of each known prefix

vars == <<phase, prefix, flights, waitsOn, woken, leads, warm>>

Absent == -1
Phases == {"idle", "entering", "waiting", "through", "streaming"}

Init ==
    /\ phase = [r \in Req |-> "idle"]
    /\ prefix = [r \in Req |-> NoPrefix]
    /\ flights = [p \in Prefix |-> Nobody]
    /\ waitsOn = [r \in Req |-> Nobody]
    /\ woken = {} /\ leads = {}
    /\ warm = [p \in Prefix |-> Absent]

isWarm(p) == warm[p] # Absent /\ warm[p] < Window

\* A request with a readable, summarised body reaches enter.
Arrive(r, p) ==
    /\ phase[r] = "idle"
    /\ phase' = [phase EXCEPT ![r] = "entering"]
    /\ prefix' = [prefix EXCEPT ![r] = p]
    /\ UNCHANGED <<flights, waitsOn, woken, leads, warm>>

-----------------------------------------------------------------------------
(* enter: one round of its loop, the part under g.mu. *)

\* The policy is off, there is no prefix, or the prefix is warm.
PassStraight(r) ==
    LET p == prefix[r]
    IN /\ phase[r] = "entering"
       /\ ~Holding \/ p = NoPrefix \/ isWarm(p)
       /\ phase' = [phase EXCEPT ![r] = "through"]
       /\ UNCHANGED <<prefix, flights, waitsOn, woken, leads, warm>>

MustAsk(r) ==
    /\ phase[r] = "entering" /\ Holding /\ prefix[r] # NoPrefix
    /\ ~isWarm(prefix[r])

\* Nobody is in flight with this prefix: lead.
Lead(r) ==
    /\ MustAsk(r) /\ flights[prefix[r]] = Nobody
    /\ flights' = [flights EXCEPT ![prefix[r]] = r]
    /\ leads' = leads \cup {r}
    /\ phase' = [phase EXCEPT ![r] = "through"]
    /\ UNCHANGED <<prefix, waitsOn, woken, warm>>

\* Somebody is: wait on that flight.
Hold(r) ==
    /\ MustAsk(r) /\ flights[prefix[r]] # Nobody
    /\ waitsOn' = [waitsOn EXCEPT ![r] = flights[prefix[r]]]
    /\ phase' = [phase EXCEPT ![r] = "waiting"]
    /\ UNCHANGED <<prefix, flights, woken, leads, warm>>

\* <-f.done: back to the top of the loop.
Wake(r) ==
    /\ phase[r] = "waiting" /\ r \in woken
    /\ phase' = [phase EXCEPT ![r] = "entering"]
    /\ waitsOn' = [waitsOn EXCEPT ![r] = Nobody]
    /\ woken' = woken \ {r}
    /\ UNCHANGED <<prefix, flights, leads, warm>>

\* Slip: the fired deadline sends the request round the loop again.
GiveUpRetries(r) ==
    /\ phase[r] = "waiting"
    /\ phase' = [phase EXCEPT ![r] = "entering"]
    /\ waitsOn' = [waitsOn EXCEPT ![r] = Nobody]
    /\ woken' = woken \ {r}
    /\ UNCHANGED <<prefix, flights, leads, warm>>

\* <-ctx.Done() or <-deadline.C: go through without leading.
GiveUp(r) ==
    /\ phase[r] = "waiting"
    /\ phase' = [phase EXCEPT ![r] = "through"]
    /\ waitsOn' = [waitsOn EXCEPT ![r] = Nobody]
    /\ woken' = woken \ {r}
    /\ UNCHANGED <<prefix, flights, leads, warm>>

-----------------------------------------------------------------------------
WaitingOn(f) == {r \in Req : phase[r] = "waiting" /\ waitsOn[r] = f}

\* flight.finish: everyone holding the flight is woken, once.
closeFlight(f) == woken' = woken \cup WaitingOn(f)

\* Slip: the channel is closed and the flight stays in the map.
finishKeeps(r) == closeFlight(r) /\ UNCHANGED flights

\* Slip: whatever flight the prefix has is deleted.
finishAny(r) ==
    /\ flights' = [flights EXCEPT ![prefix[r]] = Nobody]
    /\ closeFlight(r)

\* finish, the leader's release: it deletes its own flight and no other.
finish(r) ==
    /\ flights' = [flights EXCEPT ![prefix[r]] = IF @ = r THEN Nobody ELSE @]
    /\ closeFlight(r)

Release(r) == IF r \in leads THEN finish(r) ELSE UNCHANGED <<flights, woken>>

Known(w) == {p \in Prefix : w[p] # Absent}
Without(w, gone) == [p \in Prefix |-> IF p \in gone THEN Absent ELSE w[p]]

\* prune: past the bound the expired entries go, then the oldest ones until
\* the bound holds.  The map is ranged over in any order, so of two entries
\* equally old either may go: these are the tables it can leave.
prune(w) ==
    IF Cardinality(Known(w)) <= MaxWarm THEN {w}
    ELSE LET fresh == Without(w, {p \in Known(w) : w[p] >= Window})
             excess == Cardinality(Known(fresh)) - MaxWarm
         IN {Without(fresh, drop) : drop \in
               {D \in SUBSET Known(fresh) :
                  /\ Cardinality(D) = IF excess > 0 THEN excess ELSE 0
                  /\ \A d \in D, k \in Known(fresh) \ D : fresh[d] >= fresh[k]}}

\* began, when the response of r, leader or not, starts with a status below
\* 300: the prefix is warm, and whichever flight it has is over.
began(r) ==
    LET p == prefix[r]
    IN /\ warm' \in prune([warm EXCEPT ![p] = 0])
       /\ closeFlight(flights[p])
       /\ flights' = [flights EXCEPT ![p] = Nobody]

ClockSeparates == Cardinality({p \in Prefix : warm[p] = 0}) < MaxWarm

\* The response of r begins: onHeaders runs once, and its status decides.
HeadersOK(r) ==
    /\ phase[r] = "through" /\ ClockSeparates
    /\ began(r)
    /\ phase' = [phase EXCEPT ![r] = "streaming"]
    /\ UNCHANGED <<prefix, waitsOn, leads>>

HeadersFailed(r) ==
    /\ phase[r] = "through"
    /\ Release(r)
    /\ phase' = [phase EXCEPT ![r] = "streaming"]
    /\ UNCHANGED <<prefix, waitsOn, leads, warm>>

\* The handler returns, with or without a response: the deferred release.
End(r) ==
    /\ phase[r] \in {"through", "streaming"}
    /\ Release(r)
    /\ leads' = leads \ {r}
    /\ phase' = [phase EXCEPT ![r] = "idle"]
    /\ UNCHANGED <<prefix, waitsOn, warm>>

Tick ==
    /\ \E p \in Prefix : warm[p] # Absent /\ warm[p] < Window
    /\ warm' = [p \in Prefix |->
                  IF warm[p] = Absent \/ warm[p] = Window THEN warm[p] ELSE warm[p] + 1]
    /\ UNCHANGED <<phase, prefix, flights, waitsOn, woken, leads>>

Enter(r) == PassStraight(r) \/ Lead(r) \/ Hold(r)

Next ==
    \/ Tick
    \/ \E r \in Req :
         \/ \E p \in Prefix : Arrive(r, p)
         \/ Enter(r) \/ Wake(r) \/ GiveUp(r)
         \/ HeadersOK(r) \/ HeadersFailed(r) \/ End(r)

(***************************************************************************)
(* Every goroutine keeps running, and every handler ends.  The deadline    *)
(* timer stays fired across rounds of the loop and select chooses among    *)
(* ready cases at random, so giving up is strongly fair.                   *)
(***************************************************************************)
Fairness ==
    \A r \in Req :
        /\ WF_vars(Enter(r)) /\ WF_vars(Wake(r)) /\ WF_vars(End(r))
        /\ SF_vars(GiveUp(r))

Spec == Init /\ [][Next]_vars
FairSpec == Spec /\ Fairness

-----------------------------------------------------------------------------
TypeOK ==
    /\ phase \in [Req -> Phases]
    /\ prefix \in [Req -> Prefix]
    /\ flights \in [Prefix -> Req \cup {Nobody}]
    /\ waitsOn \in [Req -> Req \cup {Nobody}]
    /\ woken \subseteq Req /\ leads \subseteq Req
    /\ warm \in [Prefix -> Absent..Window]

\* The flight in the map always belongs to a request that is still upstream
\* with no response begun, so somebody is bound to end it.
FlightHasLeader ==
    \A p \in Prefix : flights[p] # Nobody =>
        /\ phase[flights[p]] = "through"
        /\ flights[p] \in leads
        /\ prefix[flights[p]] = p

\* No lost wakeup: a request that waits and has not been woken waits on the
\* flight its prefix has now; a flight never leaves the map with someone still
\* asleep on it, whichever request removed it.
NobodyWaitsOnTheGone ==
    \A r \in Req : phase[r] = "waiting" /\ r \notin woken =>
        waitsOn[r] # Nobody /\ flights[prefix[r]] = waitsOn[r]

\* Whoever sleeps at the gate sleeps on a flight that somebody will end.
GateIsSound == FlightHasLeader /\ NobodyWaitsOnTheGone

\* A request that reached enter is forwarded in the end, however often it is
\* woken only to find a new leader.
HeldGoesThrough ==
    \A r \in Req : (phase[r] \in {"entering", "waiting"}) ~> (phase[r] = "through")

=============================================================================
