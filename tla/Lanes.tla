--------------------------------- MODULE Lanes ---------------------------------
(***************************************************************************)
(* The proxy's per-session observation state (internal/proxy/state.go) and *)
(* the handler that drives it (handle in passthrough.go): a bounded table  *)
(* of sessions, in each session a lane per agent, in each lane the         *)
(* requests in flight and what the next one is compared with.              *)
(*                                                                         *)
(* A sessionState is named by its admitted number, so a request that       *)
(* outlives the eviction of its session still holds the old one, as its    *)
(* pointer does.  Every step is one critical section of s.mu or of the     *)
(* session's scoreMu; requests interleave between them.  entered, alone    *)
(* and torn are history.                                                   *)
(***************************************************************************)
EXTENDS Integers, FiniteSets

CONSTANTS
    Req, Session, Agent,
    MaxSessions

ASSUME LanesAssumption ==
    /\ MaxSessions \in Nat \ {0}
    /\ IsFiniteSet(Req) /\ Session # {} /\ Agent # {}

\* A request looks its session up twice, so it admits at most two states.
Obj == 1..(2 * Cardinality(Req))
NoObj == 0
Nobody == "nobody"

VARIABLES
    now,
    table,          \* s.sessions: the state of each session
    admittedSeq, lastSeen,
    open, last,     \* laneState: requests in flight, last request compared with
    builder, covered,   \* records in the builder, records the scores cover
    pc, sess, agent, start,
    home,           \* the state whose lane a request entered
    overlapped,     \* requests whose overlap flag is set
    mark,           \* rec.Correlation
    score, mine,    \* rescore's st and covered
    entered,        \* the order in which requests entered, 0 before
    alone,          \* requests nobody joined in their lane before they were marked
    torn            \* sessions evicted with a request in flight

laneVars == <<open, last, builder, covered>>
tableVars == <<table, admittedSeq, lastSeen, torn>>
reqVars == <<sess, agent, start, home, overlapped, mark, score, mine, entered, alone>>
lanesVars == <<now, tableVars, laneVars, pc, reqVars>>

LanesInit ==
    /\ now = 0 /\ admittedSeq = 0
    /\ table = [s \in Session |-> NoObj] /\ lastSeen = [o \in Obj |-> 0]
    /\ open = [o \in Obj |-> [a \in Agent |-> {}]]
    /\ last = [o \in Obj |-> [a \in Agent |-> Nobody]]
    /\ builder = [o \in Obj |-> [a \in Agent |-> 0]] /\ covered = builder
    /\ pc = [r \in Req |-> "new"]
    /\ sess \in [Req -> Session] /\ agent \in [Req -> Agent]
    /\ start = [r \in Req |-> 0] /\ home = [r \in Req |-> NoObj]
    /\ overlapped = {} /\ mark = [r \in Req |-> "none"]
    /\ score = [r \in Req |-> NoObj] /\ mine = [r \in Req |-> 0]
    /\ entered = [r \in Req |-> 0] /\ alone = Req /\ torn = {}

Goto(r, step) == pc' = [pc EXCEPT ![r] = step]

SameLane(r, q) == sess[r] = sess[q] /\ agent[r] = agent[q]

\* Registered in a lane: between enterLane and leaveLane.
InLane(r) == pc[r] \in {"upstream", "marked", "observed", "no usage"}

-----------------------------------------------------------------------------
(* stats.session *)

Live == {s \in Session : table[s] # NoObj}

\* The least recently seen session, the first admitted of equals.
Oldest(s) ==
    \A t \in Live :
        \/ lastSeen[table[s]] < lastSeen[table[t]]
        \/ lastSeen[table[s]] = lastSeen[table[t]] /\ table[s] <= table[t]

Evicted(s) ==
    IF s \in Live \/ Cardinality(Live) < MaxSessions THEN {}
    ELSE {t \in Live : Oldest(t)}

\* Finds the state of s, or admits one and evicts to make room.  o is the
\* state found; touched is when it was last seen after this step.
session(s, o, touched) ==
    /\ o = IF s \in Live THEN table[s] ELSE admittedSeq + 1
    /\ admittedSeq' = IF s \in Live THEN admittedSeq ELSE o
    /\ table' = [t \in Session |-> IF t = s THEN o
                                   ELSE IF t \in Evicted(s) THEN NoObj ELSE table[t]]
    /\ lastSeen' = [lastSeen EXCEPT ![o] = touched]
    /\ torn' = torn \cup {t \in Evicted(s) : \E q \in Req : sess[q] = t /\ InLane(q)}

\* A hit leaves lastSeen alone; a new state starts at the present.
Seen(s) == IF s \in Live THEN lastSeen[table[s]] ELSE now

-----------------------------------------------------------------------------
(* One request, from the guards to its bookkeeping. *)

Arrive(r) ==
    /\ pc[r] = "new" /\ Goto(r, "arrived")
    /\ start' = [start EXCEPT ![r] = now + 1] /\ now' = now + 1
    /\ UNCHANGED <<tableVars, laneVars, sess, agent, home, overlapped, mark, score, mine, entered, alone>>

\* Slip: only the newcomer learns of the overlap.
enterLaneOneSided(r) ==
    \E o \in Obj :
        LET others == open[o][agent[r]]
        IN /\ pc[r] = "arrived" /\ Goto(r, "upstream")
           /\ session(sess[r], o, Seen(sess[r]))
           /\ overlapped' = IF others = {} THEN overlapped ELSE overlapped \cup {r}
           /\ open' = [open EXCEPT ![o][agent[r]] = @ \cup {r}]
           /\ home' = [home EXCEPT ![r] = o]
           /\ entered' = [entered EXCEPT ![r] = 1 + Cardinality({q \in Req : entered[q] > 0})]
           /\ alone' = alone \ UNION {{q, r} : q \in {p \in Req : pc[p] = "upstream" /\ SameLane(p, r)}}
           /\ UNCHANGED <<now, last, builder, covered, sess, agent, start, mark, score, mine>>

\* enterLane: both sides of every pair in flight are marked.
enterLane(r) ==
    \E o \in Obj :
        LET others == open[o][agent[r]]
        IN /\ pc[r] = "arrived" /\ Goto(r, "upstream")
           /\ session(sess[r], o, Seen(sess[r]))
           /\ overlapped' = IF others = {} THEN overlapped ELSE overlapped \cup others \cup {r}
           /\ open' = [open EXCEPT ![o][agent[r]] = @ \cup {r}]
           /\ home' = [home EXCEPT ![r] = o]
           /\ entered' = [entered EXCEPT ![r] = 1 + Cardinality({q \in Req : entered[q] > 0})]
           /\ alone' = alone \ UNION {{q, r} : q \in {p \in Req : pc[p] = "upstream" /\ SameLane(p, r)}}
           /\ UNCHANGED <<now, last, builder, covered, sess, agent, start, mark, score, mine>>

\* correlation, once the response has passed or been cut off.
correlation(r) ==
    /\ pc[r] = "upstream" /\ Goto(r, "marked")
    /\ mark' = [mark EXCEPT ![r] = IF r \in overlapped THEN "overlap" ELSE "serial"]
    /\ UNCHANGED <<now, tableVars, laneVars, sess, agent, start, home, overlapped,
                   score, mine, entered, alone>>

\* observe, of a response that carried usage: the session is looked up again.
observe(r) ==
    \E o \in Obj :
        /\ pc[r] = "marked" /\ Goto(r, "observed")
        /\ session(sess[r], o, start[r])
        /\ last' = [last EXCEPT ![o][agent[r]] = r]
        /\ UNCHANGED <<now, open, builder, covered, reqVars>>

\* observe of a response without usage changes no session.
observeNothing(r) ==
    /\ pc[r] = "marked" /\ Goto(r, "no usage")
    /\ UNCHANGED <<now, tableVars, laneVars, reqVars>>

\* leaveLane: out of the lane it entered, whatever the table holds now.
leaveLane(r) ==
    /\ pc[r] \in {"observed", "no usage"}
    /\ Goto(r, IF pc[r] = "observed" THEN "append" ELSE "done")
    /\ open' = [open EXCEPT ![home[r]][agent[r]] = @ \ {r}]
    /\ UNCHANGED <<now, tableVars, last, builder, covered, reqVars>>

\* rescore, first part: no state, no score.
rescoreLookup(r) ==
    LET o == table[sess[r]]
    IN /\ pc[r] = "append"
       /\ Goto(r, IF o = NoObj THEN "done" ELSE "score")
       /\ score' = [score EXCEPT ![r] = o]
       /\ UNCHANGED <<now, tableVars, laneVars, sess, agent, start, home, overlapped,
                      mark, mine, entered, alone>>

\* Under scoreMu: the record joins the builder and the lane is walked.
rescoreWalk(r) ==
    LET o == score[r]
    IN /\ pc[r] = "score" /\ Goto(r, "publish")
       /\ builder' = [builder EXCEPT ![o][agent[r]] = @ + 1]
       /\ mine' = [mine EXCEPT ![r] = builder'[o][agent[r]]]
       /\ UNCHANGED <<now, tableVars, open, last, covered, sess, agent, start, home,
                      overlapped, mark, score, entered, alone>>

\* Under s.mu again: the lane's figures are replaced by this walk's.
rescorePublish(r) ==
    /\ pc[r] = "publish" /\ Goto(r, "done")
    /\ covered' = [covered EXCEPT ![score[r]][agent[r]] = mine[r]]
    /\ UNCHANGED <<now, tableVars, open, last, builder, reqVars>>

LanesNext ==
    \E r \in Req :
        \/ Arrive(r) \/ enterLane(r) \/ correlation(r) \/ observe(r) \/ observeNothing(r)
        \/ leaveLane(r) \/ rescoreLookup(r) \/ rescoreWalk(r) \/ rescorePublish(r)

LanesSpec == LanesInit /\ [][LanesNext]_lanesVars

-----------------------------------------------------------------------------
Steps == {"new", "arrived", "upstream", "marked", "observed", "no usage", "append", "score",
          "publish", "done"}

(* The state is well typed; the table is within its bound and no two       *)
(* sessions share a state.                                                 *)
LanesTypeOK ==
    /\ now \in Nat /\ admittedSeq \in Obj \cup {NoObj}
    /\ table \in [Session -> Obj \cup {NoObj}] /\ Cardinality(Live) <= MaxSessions
    /\ \A s, t \in Live : table[s] = table[t] => s = t
    /\ lastSeen \in [Obj -> Nat]
    /\ open \in [Obj -> [Agent -> SUBSET Req]]
    /\ last \in [Obj -> [Agent -> Req \cup {Nobody}]]
    /\ builder \in [Obj -> [Agent -> Nat]] /\ covered \in [Obj -> [Agent -> Nat]]
    /\ pc \in [Req -> Steps] /\ mark \in [Req -> {"none", "serial", "overlap"}]
    /\ sess \in [Req -> Session] /\ agent \in [Req -> Agent]
    /\ start \in [Req -> Nat] /\ entered \in [Req -> Nat] /\ mine \in [Req -> Nat]
    /\ home \in [Req -> Obj \cup {NoObj}] /\ score \in [Req -> Obj \cup {NoObj}]
    /\ overlapped \subseteq Req /\ alone \subseteq Req /\ torn \subseteq Session

(* laneState.open: a request that outlives the eviction of its session     *)
(* clears its own entry and nobody else's, so a lane's open set is always  *)
(* exactly the requests in flight that entered it.                         *)
OpenIsInFlight ==
    LanesTypeOK /\ \A o \in Obj, a \in Agent :
        open[o][a] = {r \in Req : InLane(r) /\ home[r] = o /\ agent[r] = a}

(* lane_serial in the ledger means what it says: no other request of the   *)
(* lane was at the provider between this one's departure and its end,      *)
(* whichever of a pair was sent first.  An eviction of the session with a  *)
(* request in flight breaks the measurement, and only that.                *)
SerialMeansAlone ==
    \A r \in Req : mark[r] = "serial" /\ sess[r] \notin torn => r \in alone

Observed(r) == pc[r] \in {"observed", "no usage", "append", "score", "publish", "done"}

(* A serial request is compared with a settled lane: whoever entered the   *)
(* lane before it has been observed by the time it is, so the cause named  *)
(* for its cache break names its predecessor and not a request that        *)
(* happened to finish first.                                               *)
SerialFollowsPredecessor ==
    \A r, q \in Req :
        (/\ SameLane(r, q) /\ sess[r] \notin torn
         /\ mark[r] = "serial" /\ Observed(r)
         /\ 0 < entered[q] /\ entered[q] < entered[r]) => Observed(q)

(* What the ledger says of a serial request is true in both respects, and   *)
(* the open sets it is read from are true of every lane.                    *)
SerialIsTrue == OpenIsInFlight /\ SerialMeansAlone /\ SerialFollowsPredecessor

(* whatIfLogEvery: "the status endpoint always has the latest figures".    *)
(* When no rescore of a lane is under way, its figures cover every record  *)
(* of the lane the session has.                                            *)
LatestFigures ==
    \A o \in Obj, a \in Agent :
        (\A r \in Req : pc[r] = "publish" => score[r] # o \/ agent[r] # a)
            => covered[o][a] = builder[o][a]

================================================================================
