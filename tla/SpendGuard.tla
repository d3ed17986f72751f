------------------------------ MODULE SpendGuard ------------------------------
(***************************************************************************)
(* The spend guard of the proxy (SpendGuard in internal/proxy/guards.go):  *)
(* per-tenant session tables with a durable remembrance of evicted         *)
(* sessions, per-tenant day totals that roll at UTC midnight, the file     *)
(* that carries the day total across a restart, and the two calls of a     *)
(* request's handler (Check before it is forwarded, Record in the          *)
(* bookkeeping after the response).  Check and Record of one request are   *)
(* separate critical sections, so any number of requests of one session    *)
(* can pass the same Check.                                                *)
(*                                                                         *)
(* Tokens and list-price dollars are the two units of every counter and    *)
(* every cap.  Spend.order, the touch counter, is kept as in the code; the *)
(* number of Records bounds it.                                            *)
(***************************************************************************)
EXTENDS Integers, FiniteSets, FiniteSetsExt

CONSTANTS
    Tenant, Session,
    Req,            \* handlers that may be between Check and Record at once
    Units,          \* {"tokens", "usd"}
    Costs,          \* what one response may cost: a set of [Units -> Nat]
    StandIns,       \* the costs whose dollar figure stands in for an unknown price
    SessionCap,     \* SpendLimits per session, [Units -> Nat], 0 for no cap
    DayCap,         \* SpendLimits per UTC day, [Units -> Nat], 0 for no cap
    MaxLive,        \* maxSpendSessions
    MaxRetired,     \* maxRetiredSpendSessions
    MayOverride,    \* values the override header may take, a set of BOOLEANs
    MayCrash,       \* whether the process may die without SaveState
    MaxRecords,     \* bound: Records in one life of the process
    MaxDaySpend,    \* bound: what is recorded for a tenant in a day, in either unit
    MaxDay          \* bound: the last UTC day of a behaviour

ASSUME SpendAssumption ==
    /\ IsFiniteSet(Session) /\ IsFiniteSet(Req) /\ "none" \notin Tenant
    /\ SessionCap \in [Units -> Nat] /\ DayCap \in [Units -> Nat]
    /\ Costs \subseteq [Units -> Nat] /\ StandIns \subseteq Costs
    /\ Costs # {} /\ \A c \in Costs, u \in Units : c[u] <= MaxDaySpend
    /\ MaxLive \in Nat \ {0} /\ MaxRetired \in Nat
    /\ MayOverride \subseteq BOOLEAN /\ MayCrash \in BOOLEAN
    /\ MaxRecords \in Nat /\ MaxDaySpend \in Nat /\ MaxDay \in Nat \ {0}

VARIABLES
    live,       \* ids in g.session[t]
    retired,    \* ids in g.retired[t]
    acct,       \* the spend record of each id in either table
    order,      \* g.order
    day,        \* g.day, NoDay for the empty string
    dayUsed,    \* g.dayUsed[t]; a tenant with no entry has spent zero
    unpriceable,
    today,      \* the UTC date of g.now()
    disk,       \* spend-day.json
    up,         \* the process is serving
    inflight,   \* the tenant and session of a request between Check and Record
    \* What really happened, for the properties only:
    spent,      \* charged to each session in this life of the process
    spentToday, \* charged to each session on this UTC day, restarts included
    excused,    \* sessions an override header took past a refusal
    lost        \* a process died on this UTC day

vars == <<live, retired, acct, order, day, dayUsed, unpriceable, today, disk,
          up, inflight, spent, spentToday, excused, lost>>
tableVars == <<live, retired, acct, order, spent>>
worldVars == <<today, disk, up, lost>>

NoDay == 0
Idle == [tenant |-> "none", session |-> "none"]
Zero == [u \in Units |-> 0]
NoSpend == [t \in Tenant |-> Zero]
NoFile == [day |-> NoDay, used |-> NoSpend]
NeverSeen == [life |-> Zero, today |-> Zero, order |-> 0, day |-> NoDay]
Nobody == [t \in Tenant |-> [s \in Session |-> Zero]]
Plus(a, b) == [u \in Units |-> a[u] + b[u]]

SpentToday(t, u) == SumFunctionOnSet([s \in Session |-> spentToday[t][s][u]], Session)

Enabled == \E u \in Units : SessionCap[u] > 0 \/ DayCap[u] > 0
DollarCap == SessionCap["usd"] > 0 \/ DayCap["usd"] > 0

\* The process is gone and its guard with it; the next one starts from what
\* NewSpendGuard makes.
MemoryLost ==
    /\ up' = FALSE
    /\ inflight' = [r \in Req |-> Idle]
    /\ day' = NoDay /\ dayUsed' = NoSpend
    /\ live' = [t \in Tenant |-> {}]
    /\ retired' = [t \in Tenant |-> {}]
    /\ acct' = [t \in Tenant |-> [s \in Session |-> NeverSeen]]
    /\ order' = 0
    /\ unpriceable' = FALSE
    /\ spent' = Nobody /\ excused' = {}

Init ==
    /\ live = [t \in Tenant |-> {}]
    /\ retired = [t \in Tenant |-> {}]
    /\ acct = [t \in Tenant |-> [s \in Session |-> NeverSeen]]
    /\ order = 0
    /\ day = NoDay
    /\ dayUsed = NoSpend
    /\ unpriceable = FALSE
    /\ today = 1
    /\ disk = NoFile
    /\ up = TRUE
    /\ inflight = [r \in Req |-> Idle]
    /\ spent = Nobody /\ spentToday = Nobody
    /\ excused = {} /\ lost = FALSE

-----------------------------------------------------------------------------
\* rollDay: the first call of a new UTC day clears every tenant's day total.
RolledUsed == IF day = today THEN dayUsed ELSE NoSpend
rollDay ==
    /\ day' = today
    /\ dayUsed' = RolledUsed

Tracked(t) == live[t] \cup retired[t]
tableFull(t) ==
    Cardinality(live[t]) >= MaxLive /\ Cardinality(retired[t]) >= MaxRetired

\* lookupSpend: zero for a session in neither table.
lookupSpend(t, s) == IF s \in Tracked(t) THEN acct[t][s].life ELSE Zero

\* Slip: a session is refused only past its cap.
VerdictOffByOne(t, s) ==
    IF s \notin Tracked(t) /\ tableFull(t) THEN "table full"
    ELSE IF \E u \in Units : SessionCap[u] > 0 /\ lookupSpend(t, s)[u] > SessionCap[u]
    THEN "session cap"
    ELSE IF \E u \in Units : DayCap[u] > 0 /\ RolledUsed[t][u] >= DayCap[u]
    THEN "day cap"
    ELSE "ok"

\* Check's answer after rollDay, the causes in the order of its returns.
Verdict(t, s) ==
    IF ~Enabled THEN "ok"
    ELSE IF s \notin Tracked(t) /\ tableFull(t) THEN "table full"
    ELSE IF \E u \in Units : SessionCap[u] > 0 /\ lookupSpend(t, s)[u] >= SessionCap[u]
    THEN "session cap"
    ELSE IF \E u \in Units : DayCap[u] > 0 /\ RolledUsed[t][u] >= DayCap[u]
    THEN "day cap"
    ELSE "ok"

\* dayLeader and attributeDay: the sessions a day-cap refusal may name (any of
\* those that tie), none when the live table does not add up to the day total
\* in both units and the refusal says that attribution is partial.
dayLeader(t, u) ==
    LET counted == {s \in live[t] : acct[t][s].day = today}
        sum(unit) == SumFunctionOnSet([s \in Session |-> acct[t][s].today[unit]], counted)
        complete == \A unit \in Units : sum(unit) >= RolledUsed[t][unit]
    IN {s \in counted : /\ complete /\ acct[t][s].today[u] > 0
                         /\ \A x \in counted : acct[t][x].today[u] <= acct[t][s].today[u]}

\* Check, and guard's use of its answer: a refusal ends the request unless the
\* override header carries a reason, which lets it proceed.
CheckPasses(r, t, s, override) ==
    /\ up /\ inflight[r] = Idle
    /\ Verdict(t, s) = "ok" \/ override
    /\ IF Enabled THEN rollDay ELSE UNCHANGED <<day, dayUsed>>
    /\ inflight' = [inflight EXCEPT ![r] = [tenant |-> t, session |-> s]]
    /\ excused' = IF Verdict(t, s) = "ok" THEN excused ELSE excused \cup {<<t, s>>}
    /\ UNCHANGED <<tableVars, unpriceable, worldVars, spentToday>>

\* Refused: nothing but a day roll changes.
CheckRefuses(t, s) ==
    /\ up
    /\ Verdict(t, s) # "ok"
    /\ rollDay
    /\ UNCHANGED <<tableVars, unpriceable, worldVars, inflight, spentToday, excused>>

-----------------------------------------------------------------------------
\* lruVictim: the live entry touched longest ago.  Touch counts are distinct.
lruVictim(t) ==
    CHOOSE s \in live[t] : \A x \in live[t] : acct[t][s].order <= acct[t][x].order

\* Slip: the victim's record is deleted, as before SP-8.
admitDiscards(t, s) ==
    IF s \in Tracked(t) THEN UNCHANGED <<live, retired>>
    ELSE IF Cardinality(live[t]) < MaxLive
    THEN live' = [live EXCEPT ![t] = @ \cup {s}] /\ UNCHANGED retired
    ELSE live' = [live EXCEPT ![t] = (@ \ {lruVictim(t)}) \cup {s}] /\ UNCHANGED retired

\* admit, when it finds or makes a slot.  The victim of a full live table is
\* remembered in the retired one; a retired session is never moved back.
admit(t, s) ==
    IF s \in Tracked(t) THEN UNCHANGED <<live, retired>>
    ELSE IF Cardinality(live[t]) < MaxLive
    THEN live' = [live EXCEPT ![t] = @ \cup {s}] /\ UNCHANGED retired
    ELSE /\ live' = [live EXCEPT ![t] = (@ \ {lruVictim(t)}) \cup {s}]
         /\ retired' = [retired EXCEPT ![t] = @ \cup {lruVictim(t)}]

\* What Record adds to a session's record; its share of the day starts over
\* when the record was last touched on another day.
Charged(entry, cost) ==
    [life |-> Plus(entry.life, cost),
     today |-> Plus(IF entry.day = today THEN entry.today ELSE Zero, cost),
     order |-> order + 1, day |-> today]

\* The day accumulator of the tenant is charged whether or not the session
\* found a slot.
DayCharge(t, s, cost) == [RolledUsed EXCEPT ![t] = Plus(@, cost)]

Pays(cost) == \E u \in Units : cost[u] > 0

\* Record for request r, whose response cost this much.  bound says the dollar
\* figure is the dearest known price standing in for an unknown one.
Record(r, cost) ==
    /\ up /\ inflight[r] # Idle /\ Enabled /\ Pays(cost)
    /\ order < MaxRecords
    /\ LET t == inflight[r].tenant
           s == inflight[r].session
           turnedAway == s \notin Tracked(t) /\ tableFull(t)
       IN /\ \A u \in Units : SpentToday(t, u) + cost[u] <= MaxDaySpend
          /\ IF turnedAway THEN UNCHANGED <<live, retired, acct, order>>
             ELSE /\ admit(t, s)
                  /\ acct' = [acct EXCEPT ![t][s] =
                       Charged(IF s \in Tracked(t) THEN @ ELSE NeverSeen, cost)]
                  /\ order' = order + 1
          /\ day' = today
          /\ dayUsed' = DayCharge(t, s, cost)
          /\ spent' = [spent EXCEPT ![t][s] = Plus(@, cost)]
          /\ spentToday' = [spentToday EXCEPT ![t][s] = Plus(@, cost)]
    /\ unpriceable' = (unpriceable \/ (cost \in StandIns /\ DollarCap))
    /\ inflight' = [inflight EXCEPT ![r] = Idle]
    /\ UNCHANGED <<worldVars, excused>>

\* The response carried no usage, cost nothing, or was cut: nothing to record.
NothingToRecord(r) ==
    /\ up /\ inflight[r] # Idle
    /\ inflight' = [inflight EXCEPT ![r] = Idle]
    /\ UNCHANGED <<tableVars, day, dayUsed, unpriceable, worldVars, spentToday, excused>>

-----------------------------------------------------------------------------
\* SaveState on the way out.  A guard that saw no request stamps today.
SaveState ==
    disk' = [day |-> IF day = NoDay THEN today ELSE day,
             used |-> dayUsed]

\* ListenAndServe returned: the day totals are written and the process ends.
\* A turn that outlasted the grace period is closed and never recorded.
Stop ==
    /\ up
    /\ SaveState
    /\ MemoryLost
    /\ UNCHANGED <<today, spentToday, lost>>

\* The process dies; the deferred SaveState does not run.
Crash ==
    /\ MayCrash /\ up
    /\ MemoryLost
    /\ lost' = TRUE
    /\ UNCHANGED <<today, disk, spentToday>>

\* Slip: the file of any day is restored as today's.
LoadStateAnyDay ==
    day' = today /\ dayUsed' = disk.used

\* LoadState: only a file of this UTC day is restored.
LoadState ==
    IF disk.day = today
    THEN day' = disk.day /\ dayUsed' = disk.used
    ELSE UNCHANGED <<day, dayUsed>>

\* replay serve starts: a new guard, then LoadState.
Start ==
    /\ ~up
    /\ up' = TRUE
    /\ LoadState
    /\ UNCHANGED <<tableVars, unpriceable, today, disk, inflight, spentToday, excused, lost>>

Midnight ==
    /\ today < MaxDay
    /\ today' = today + 1
    /\ spentToday' = Nobody /\ lost' = FALSE
    /\ UNCHANGED <<tableVars, day, dayUsed, unpriceable, disk, up, inflight, excused>>

Next ==
    \/ \E t \in Tenant, s \in Session :
         \/ CheckRefuses(t, s)
         \/ \E r \in Req, override \in MayOverride : CheckPasses(r, t, s, override)
    \/ \E r \in Req :
         \/ NothingToRecord(r)
         \/ \E cost \in Costs : Record(r, cost)
    \/ Stop \/ Crash \/ Start \/ Midnight

Spec == Init /\ [][Next]_vars

-----------------------------------------------------------------------------
Amount == [Units -> Nat]

TypeOK ==
    /\ live \in [Tenant -> SUBSET Session]
    /\ retired \in [Tenant -> SUBSET Session]
    /\ acct \in [Tenant -> [Session ->
                  [life : Amount, today : Amount, order : 0..MaxRecords, day : 0..MaxDay]]]
    /\ order \in 0..MaxRecords
    /\ day \in 0..MaxDay /\ today \in 1..MaxDay
    /\ dayUsed \in [Tenant -> Amount]
    /\ unpriceable \in BOOLEAN /\ up \in BOOLEAN /\ lost \in BOOLEAN
    /\ disk \in [day : 0..MaxDay, used : [Tenant -> Amount]]
    /\ inflight \in [Req -> {Idle} \cup [tenant : Tenant, session : Session]]
    /\ spent \in [Tenant -> [Session -> Amount]]
    /\ spentToday \in [Tenant -> [Session -> Amount]]
    /\ excused \subseteq Tenant \X Session

\* A session id is in one table at most, both tables keep their bounds, and
\* anything is remembered as retired only while the live table is exactly full:
\* the claim on which admit rests when it never moves a session back.
TablesSound ==
    TypeOK /\ \A t \in Tenant :
        /\ live[t] \cap retired[t] = {}
        /\ Cardinality(live[t]) <= MaxLive
        /\ Cardinality(retired[t]) <= MaxRetired
        /\ retired[t] # {} => Cardinality(live[t]) = MaxLive

\* SP-8, durable or fail closed: what lookupSpend reports for a session that
\* has a slot is everything charged to it since the process started, however
\* often it was evicted and came back and whoever filled the tables meanwhile;
\* and the tables are sound.
AccountingDurable ==
    TablesSound /\ (up => \A t \in Tenant : \A s \in Tracked(t) : acct[t][s].life = spent[t][s])

\* A day-cap refusal that names a session names one that spent most today, and
\* never a survivor of eviction in place of a larger spender (SP-7).
LeaderIsLargest ==
    (up /\ ~lost) => \A t \in Tenant, u \in Units : \A s \in dayLeader(t, u), x \in Session :
            spentToday[t][x][u] <= spentToday[t][s][u]

\* As long as no process died on this UTC day, the day total of a tenant is all
\* that was recorded for it on this day, by this process and the ones before it:
\* no roll, orderly restart or turned-away session loses or doubles a charge,
\* and yesterday's spend, a crash of yesterday included, is not carried over.
\* When one died between a Record and the SaveState the total is too small, and
\* never too large: a stale file does not refuse the first session of the morning.
\* The session a refusal blames for that total is the largest of the day.
DayTotalIsTrue ==
    LeaderIsLargest /\ \A t \in Tenant, u \in Units :
        /\ RolledUsed[t][u] <= SpentToday(t, u)
        /\ up /\ ~lost => RolledUsed[t][u] = SpentToday(t, u)

\* Requests that passed Check before any of them recorded can take a session
\* past its cap, but never by more than the dearest response for each handler:
\* nothing admitted after the cap was reached adds to it, unless the client
\* asked for that session to proceed.
OvershootBounded ==
    up =>
       \A t \in Tenant, s \in Session, u \in Units : <<t, s>> \in excused \/
          LET dearest == Max({c[u] : c \in Costs})
              open == Cardinality({r \in Req : inflight[r] = [tenant |-> t, session |-> s]})
          IN SessionCap[u] > 0 =>
                lookupSpend(t, s)[u] + open * dearest
                   <= SessionCap[u] - 1 + Cardinality(Req) * dearest

=============================================================================
