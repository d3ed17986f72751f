------------------------------- MODULE Guards -------------------------------
(* What Server.guard decides about a request before it is forwarded, beside   *)
(* the spend cap (SpendGuard): the error budget, the loop detector and the    *)
(* pre-flight ceiling (internal/proxy/guards.go, preflight.go), read from     *)
(* figures that finished requests of the session write, each in its own time  *)
(* (internal/proxy/state.go).                                                 *)
(*                                                                            *)
(* One session with several lanes.  Requests are numbered in the order they   *)
(* arrive; a request costs one prompt token, which may carry error content.   *)
EXTENDS Integers, FiniteSets, Sequences

CONSTANTS
    MaxReq, Client,
    Tokens,         \* what re-laying each prefix would cost, by estimate
    Conversations,  \* the tool calls a prompt may end with
    ShareNum, ShareDen, MinPrompt,  \* ErrorBudget.Share and the smallest session judged
    LoopBlock,
    Ceiling, OptIn  \* analysis.PolicyState

Request == 1..MaxReq
Unhashed == "unhashed"      \* PrefixHash of a request that could not be read
PromptPrefix == DOMAIN Tokens \cup {Unhashed}
NoClient == "none"
NotJudging == [verdict |-> "none", causes |-> {}, settled |-> TRUE]
Calls == UNION {{cs[i] : i \in DOMAIN cs} : cs \in Conversations}
NoCall == "no call"         \* a block without a call key, a message that is no call

ASSUME GuardsAssumption ==
    /\ MaxReq \in Nat /\ NoClient \notin Client
    /\ Tokens \in [DOMAIN Tokens -> Nat] /\ {"unseen", Unhashed} \cap DOMAIN Tokens = {}
    /\ Conversations \subseteq Seq(Calls)
    /\ ShareNum \in Nat /\ ShareDen \in Nat /\ MinPrompt \in Nat /\ LoopBlock \in Nat
    /\ Ceiling \in Nat /\ OptIn \in BOOLEAN

VARIABLES
    turn, client, prefix, errs,
    lane,           \* laneState.prefixHash, "unseen" before
    tally,          \* st.tally.PromptTokens
    records, own,   \* requests the builder has, and the errors a walk of the lane found
    errorByLane,    \* the published figure of each lane, as the errors it counts
    judged          \* history: the judgement this step made, why, and whether
                    \* no figure was on its way to it

request == <<client, prefix, errs>>
guardsVars == <<turn, request, judged, lane, tally, records, own, errorByLane>>

GuardsInit ==
    /\ turn = [r \in Request |-> "new"]
    /\ client = [r \in Request |-> NoClient] /\ prefix = [r \in Request |-> Unhashed]
    /\ errs = [r \in Request |-> 0]
    /\ lane = [a \in Client |-> "unseen"] /\ tally = 0
    /\ records = {} /\ own = [r \in Request |-> {}] /\ errorByLane = [a \in Client |-> {}]
    /\ judged = NotJudging

\* The requests of rs whose prompt carried error content.
ErrorsOf(rs) == {r \in rs : errs[r] = 1}
OfLane(rs, a) == {r \in rs : client[r] = a}

-----------------------------------------------------------------------------
(* The checks.                                                                *)

\* stats.errorTokens: every lane of the session.
totalErrorTokens == Cardinality({p \in Client \X Request : p[2] \in errorByLane[p[1]]})

\* ErrorBudget.Check, true for a refusal.
ErrorBudgetCheck ==
    /\ ShareNum > 0 /\ tally >= MinPrompt
    /\ totalErrorTokens * ShareDen >= ShareNum * tally

\* DetectLoop: how often the last call was made in a row.
repeats(v, c) ==
    IF c = NoCall THEN v
    ELSE IF c = v.lastKey THEN [lastKey |-> c, Repeats |-> v.Repeats + 1]
    ELSE [lastKey |-> c, Repeats |-> 1]

DetectLoop(cs) ==
    LET run[i \in 0..Len(cs)] ==
            IF i = 0 THEN [lastKey |-> NoCall, Repeats |-> 0] ELSE repeats(run[i - 1], cs[i])
    IN  run[Len(cs)].Repeats

Blocked(cs) == LoopBlock > 0 /\ DetectLoop(cs) >= LoopBlock

\* NewPreFlightDeficit, WouldRefuse and Straddles: the estimate is over the
\* ceiling, and so is the whole band around it (whose high end then is too).
Low(t) == t - (t * 15) \div 100
WouldRefuse(t) == OptIn /\ t > Ceiling
Straddles(t) == OptIn /\ Low(t) <= Ceiling

\* Slip: a request is compared with whichever request of the session came last.
laneSnapshotOfSession(a) ==
    IF \A b \in Client : lane[b] = "unseen" THEN "unseen"
    ELSE lane[CHOOSE b \in Client : lane[b] # "unseen"]

laneSnapshot(a) == lane[a]

\* preFlight, true for a refusal.
preFlight(a, h) ==
    LET prior == laneSnapshot(a)
    IN  /\ h # Unhashed /\ prior \notin {"unseen", Unhashed, h}
        /\ WouldRefuse(Tokens[h]) /\ ~ Straddles(Tokens[h])

\* The first guard that refuses.
Verdict(a, h, cs) ==
    CASE ErrorBudgetCheck -> "error budget"
      [] ~ ErrorBudgetCheck /\ Blocked(cs) -> "loop"
      [] ~ ErrorBudgetCheck /\ ~ Blocked(cs) /\ preFlight(a, h) -> "preflight"
      [] OTHER -> "passed"

-----------------------------------------------------------------------------
(* What the guards are for, said of the requests and not of the figures.      *)

Counted == {r \in Request : turn[r] \in {"observed", "walked", "published"}}

\* Every figure is published, and none by a walk that another overtook.
Settled ==
    /\ \A r \in Counted : turn[r] = "published"
    /\ \A a \in Client : errorByLane[a] = ErrorsOf(OfLane(records, a))

OverBudget(rs) ==
    /\ ShareNum > 0 /\ Cardinality(rs) >= MinPrompt
    /\ Cardinality(ErrorsOf(rs)) * ShareDen >= ShareNum * Cardinality(rs)

\* The calls of a conversation end in n equal ones: behind some place there are
\* as many, and no other.
CallsAfter(cs, m) == {i \in (m + 1)..Len(cs) : cs[i] # NoCall}
EndsInRun(cs, n) ==
    \E m \in 0..Len(cs) :
        /\ Cardinality(CallsAfter(cs, m)) >= n
        /\ \A i, j \in CallsAfter(cs, m) : cs[i] = cs[j]

\* The lane has sent another prefix, and even the low end of what laying this
\* one would cost is over the ceiling.
Relays(a, h) ==
    /\ h # Unhashed /\ \E q \in OfLane(Counted, a) : prefix[q] # h
    /\ Low(Tokens[h]) > Ceiling

Causes(a, h, cs) ==
    (IF OverBudget(Counted) THEN {"error budget"} ELSE {})
    \cup (IF LoopBlock > 0 /\ EndsInRun(cs, LoopBlock) THEN {"loop"} ELSE {})
    \cup (IF Relays(a, h) THEN {"preflight"} ELSE {})

-----------------------------------------------------------------------------
(* A request, from the guards to the end of its bookkeeping.                  *)

\* guard, and refuseSession, which answers the client and is no observation.
\* An override goes past the guards that would have refused.
guard(r, a, h, e, cs, override) ==
    LET v == Verdict(a, h, cs)
        through == v = "passed" \/ override
    IN  /\ turn[r] = "new" /\ \A q \in Request : q < r => turn[q] # "new"
        /\ override => v # "passed"
        /\ judged' = [verdict |-> v, causes |-> Causes(a, h, cs), settled |-> Settled]
        /\ turn' = [turn EXCEPT ![r] = IF through THEN "upstream" ELSE "refused"]
        /\ client' = IF through THEN [client EXCEPT ![r] = a] ELSE client
        /\ prefix' = IF through THEN [prefix EXCEPT ![r] = h] ELSE prefix
        /\ errs' = IF through THEN [errs EXCEPT ![r] = e] ELSE errs
        /\ UNCHANGED <<lane, tally, records, own, errorByLane>>

\* observeShare of a response that carried usage: the lane's prefix and the tally.
observeShare(r) ==
    /\ turn[r] = "upstream"
    /\ turn' = [turn EXCEPT ![r] = "observed"]
    /\ lane' = [lane EXCEPT ![client[r]] = prefix[r]]
    /\ tally' = tally + 1
    /\ judged' = NotJudging
    /\ UNCHANGED <<request, records, own, errorByLane>>

\* observeShare of one that did not.
observeNoUsage(r) ==
    /\ turn[r] = "upstream"
    /\ turn' = [turn EXCEPT ![r] = "ended"]
    /\ judged' = NotJudging
    /\ UNCHANGED <<request, lane, tally, records, own, errorByLane>>

\* rescore under scoreMu: the record joins the records and its lane is walked.
walkErrors(r) ==
    /\ turn[r] = "observed"
    /\ turn' = [turn EXCEPT ![r] = "walked"]
    /\ records' = records \cup {r}
    /\ own' = [own EXCEPT ![r] = ErrorsOf(OfLane(records \cup {r}, client[r]))]
    /\ judged' = NotJudging
    /\ UNCHANGED <<request, lane, tally, errorByLane>>

\* rescore under s.mu: the lane's figure is replaced.
publishErrors(r) ==
    /\ turn[r] = "walked"
    /\ turn' = [turn EXCEPT ![r] = "published"]
    /\ errorByLane' = [errorByLane EXCEPT ![client[r]] = own[r]]
    /\ own' = [own EXCEPT ![r] = {}]
    /\ judged' = NotJudging
    /\ UNCHANGED <<request, lane, tally, records>>

GuardsNext ==
    \E r \in Request :
        \/ observeShare(r) \/ observeNoUsage(r) \/ walkErrors(r) \/ publishErrors(r)
        \/ \E a \in Client, h \in PromptPrefix, e \in {0, 1}, cs \in Conversations,
              override \in BOOLEAN : guard(r, a, h, e, cs, override)

GuardsSpec == GuardsInit /\ [][GuardsNext]_guardsVars

-----------------------------------------------------------------------------
(* Properties.                                                                *)

GuardsTypeOK ==
    /\ turn \in [Request -> {"new", "upstream", "refused", "observed", "walked", "published",
                             "ended"}]
    /\ client \in [Request -> Client \cup {NoClient}] /\ prefix \in [Request -> PromptPrefix]
    /\ errs \in [Request -> {0, 1}] /\ lane \in [Client -> PromptPrefix \cup {"unseen"}]
    /\ tally \in Nat /\ records \in SUBSET Request
    /\ own \in [Request -> SUBSET Request] /\ errorByLane \in [Client -> SUBSET Request]
    /\ judged.causes \subseteq {"error budget", "loop", "preflight"}

\* No request is refused without cause, whatever its siblings are doing: not for
\* an error share the session never had, not for a run of calls that is broken,
\* and not for a prefix that its own lane has not changed.  And none passes in
\* a loop, or over its budget once the figures have settled.
RefusedForCause ==
    /\ GuardsTypeOK
    /\ judged.verdict \notin {"none", "passed"} => judged.verdict \in judged.causes
    /\ judged.verdict = "passed" => "loop" \notin judged.causes
    /\ judged.verdict = "passed" /\ judged.settled => "error budget" \notin judged.causes

=============================================================================
