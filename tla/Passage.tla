------------------------------- MODULE Passage -------------------------------
(* Server.handle (internal/proxy/passthrough.go): one request in, one response *)
(* out, one ledger record, whatever happens in between, and the figures that   *)
(* /replay/status and /replay/metrics report of it (internal/proxy/state.go).  *)
(*                                                                             *)
(* Each action is the part of the handler up to and including one critical     *)
(* section; what the handler does to its own request and record belongs to the *)
(* next one.  A body is the set of rewrites it has been through, and its hash  *)
(* that set.  The breaker, the gate, the guards, the pins and the parsers have *)
(* modules of their own; here they answer in any way they may.  A request      *)
(* costs one token and, when its model is known, one dollar.                   *)
EXTENDS Integers, FiniteSets

CONSTANTS
    Call,           \* requests the listener accepts
    Asks,           \* what a request may be
    Flags,          \* how `replay serve` may have been started
    MaxToday        \* bound on the days

messagesPath == "/v1/messages"
chatCompletionsPath == "/v1/chat/completions"
responsesPath == "/v1/responses"
Paths == {messagesPath, chatCompletionsPath, responsesPath, "/v1/other"}

\* A body that cannot be read, one over the limit, an empty one, one that is not
\* JSON, JSON the summarizer does not understand, and a request.
BodyKinds == {"broken", "large", "empty", "junk", "odd", "request"}

AskType ==
    [origin : {"none", "browser"},
     host : {"local", "foreign"}, socket : BOOLEAN,     \* Host header, and the listener
     token : {"right", "wrong"},
     tenant : {"absent", "legal", "reserved", "illegal"},
     path : Paths, post : BOOLEAN,
     session : BOOLEAN,         \* the session header is there
     named : BOOLEAN,           \* the summary can name a session
     kind : BodyKinds,
     has : SUBSET {"secret", "version", "stream"},
     known : BOOLEAN]           \* the model is in the price table

FlagsType ==
    [mask : BOOLEAN, freeze : BOOLEAN, policy : BOOLEAN, token : BOOLEAN,
     noPolicy : BOOLEAN]        \* REPLAY_NO_POLICY

Refusals ==
    {"tenant_unresolved", "circuit_open", "spend_cap", "error_budget", "loop",
     "preflight_deficit"}
Classes == {"2xx", "4xx", "5xx"}

\* What the tap saw: a status, or 0 from a client that left before there was one;
\* and whether the body carried usage, none, or could not be read.
Replies ==
    [status : {200}, body : {"usage", "none", "unread"}]
    \cup [status : {429, 502}, body : {"none"}]
NoReply == [status |-> 0, body |-> "none"]

ASSUME PassageAssumption ==
    /\ IsFiniteSet(Call) /\ Asks \subseteq AskType /\ Flags \subseteq FlagsType
    /\ MaxToday \in Nat \ {0}

NotSent == {"not sent"}
NoHash == {"no hash"}
Rewrites == {"masked", "frozen", "edited", "usage asked"}
Fresh ==
    [before |-> NoHash, after |-> NoHash, masked |-> FALSE, degraded |-> FALSE,
     frozen |-> FALSE, policy |-> "none", session |-> FALSE, summarized |-> FALSE,
     refusal |-> "none"]

VARIABLES
    cfg,                    \* proxy.Config, as far as the handler reads it
    step,                   \* where each call is
    ask, payload, rec,      \* the request, its body as rewritten so far, its record
    wire,                   \* the body the provider was sent
    reply,
    probe, probing,         \* calls that were let through as a probe, and b.probing
    observed, returned,     \* calls the breaker observed, and that gave a probe back
    inLane, leading,        \* calls registered in their lane; with a flight at the gate
    charged,                \* calls SpendGuard.Record has seen
    filed,                  \* how often a record was appended for each call
    noted, told,            \* stats.unparsed, unmasked and disclosed; lines logged
    requests, refusedByKind, latencyCount,
    unused, unreadable,     \* stats.noUsage and stats.unparsedBody
    metered, unpriced,      \* requests in the token counters; without a price
    costUSD, dayCostUSD, dayStamp,
    today, booked           \* the day, and the day each call was priced on

carried == <<ask, payload, rec>>
breakerVars == <<probe, probing, observed, returned>>
heldVars == <<inLane, leading>>
noteVars == <<noted, told>>
refusedVars == <<requests, refusedByKind>>
blindVars == <<charged, unused, unreadable>>
countVars == <<latencyCount, metered, unpriced, costUSD, dayCostUSD, dayStamp, booked>>
passageVars ==
    <<cfg, step, carried, wire, reply, breakerVars, heldVars, filed, noteVars, refusedVars,
      blindVars, countVars, today>>

-----------------------------------------------------------------------------
(* The command line, and the front door.                                      *)

\* runServe with maskingFromFlags and contextEditFromFlags, and proxy.New:
\* REPLAY_NO_POLICY clears every flag that rewrites.
Configured(f) ==
    [Masker |-> f.mask /\ ~ f.noPolicy, FreezePrefix |-> f.freeze /\ ~ f.noPolicy,
     Policy |-> f.policy /\ ~ f.noPolicy, Token |-> f.token, NoPolicy |-> f.noPolicy]

\* notLocal: a browser, or a Host that is not this machine on a TCP listener.
notLocal(a) == a.origin = "browser" \/ (~ a.socket /\ a.host = "foreign")

\* localOnly: the token too, when one is configured.
localOnly(a) == ~ notLocal(a) /\ (cfg.Token => a.token = "right")

\* tenancy.ResolveTenant: absent is the local tenant, everything else must be
\* legal and no reserved word.
ResolveTenant(a) == a.tenant \in {"absent", "legal"}

isMessages(p) == p = messagesPath
isChatCompletions(p) == p = chatCompletionsPath
isResponses(p) == p = responsesPath
readable(p) == isMessages(p) \/ isChatCompletions(p) \/ isResponses(p)
maskable(p) == isMessages(p) \/ isResponses(p)

-----------------------------------------------------------------------------
(* What may be done to a body.                                                *)

isJSON(a) == a.kind \in {"odd", "request"}
hasBody(a) == a.kind \in {"junk", "odd", "request"}
Guarded(a) == readable(a.path) /\ hasBody(a)

\* Server.mask and Masker.Mask: what is no JSON is returned with an error; a
\* vault that cannot store leaves a blind placeholder and an error.
masks(a) == maskable(a.path) /\ hasBody(a) /\ cfg.Masker /\ ~ cfg.NoPolicy
secretFound(a) == masks(a) /\ isJSON(a) /\ "secret" \in a.has

\* freezeBillingHeader: the first version that is long enough, wherever it is.
freezes(a) ==
    /\ isMessages(a.path) /\ hasBody(a) /\ cfg.FreezePrefix /\ ~ cfg.NoPolicy
    /\ "version" \in a.has

\* withUsageReporting: a stream whose client set no options.
asksUsage(a) ==
    isChatCompletions(a.path) /\ isJSON(a) /\ ~ cfg.NoPolicy /\ "stream" \in a.has

\* One summarizer for each shape of request, chosen by the path.
SummarizeRequest(a) == isMessages(a.path) /\ a.kind = "request"
SummarizeOpenAIRequest(a) == isChatCompletions(a.path) /\ a.kind = "request"
SummarizeResponsesRequest(a) == isResponses(a.path) /\ a.kind = "request"
summarizes(a) ==
    SummarizeRequest(a) \/ SummarizeOpenAIRequest(a) \/ SummarizeResponsesRequest(a)

\* policyConfigured, and what applyPolicy asks of this request beside its pin.
policyConfigured == ~ cfg.NoPolicy /\ cfg.Policy
mayEdit(c) ==
    /\ isMessages(ask[c].path) /\ hasBody(ask[c])
    /\ policyConfigured /\ rec[c].session /\ rec[c].summarized

\* The rewrites a record names.
Named(r) ==
    (IF r.masked THEN {"masked"} ELSE {}) \cup (IF r.frozen THEN {"frozen"} ELSE {})
    \cup (IF r.policy = "context-edit" THEN {"edited"} ELSE {})
    \cup (IF r.policy = "openai-include-usage" THEN {"usage asked"} ELSE {})

-----------------------------------------------------------------------------
(* One call.                                                                  *)

PassageInit ==
    /\ \E f \in Flags : cfg = Configured(f)
    /\ step = [c \in Call |-> "new"]
    /\ ask \in [Call -> Asks]
    /\ payload = [c \in Call |-> {}] /\ rec = [c \in Call |-> Fresh]
    /\ wire = [c \in Call |-> NotSent] /\ reply = [c \in Call |-> NoReply]
    /\ probe = {} /\ probing = FALSE /\ observed = {} /\ returned = {}
    /\ inLane = {} /\ leading = {} /\ charged = {}
    /\ filed = [c \in Call |-> 0]
    /\ noted = [p \in Paths |-> 0] /\ told = [p \in Paths |-> 0]
    /\ requests = [k \in Classes \cup {"refused"} |-> 0]
    /\ refusedByKind = [k \in Refusals |-> 0]
    /\ latencyCount = 0 /\ unused = 0 /\ unreadable = 0 /\ metered = 0 /\ unpriced = 0
    /\ costUSD = 0 /\ dayCostUSD = 0 /\ dayStamp = 0
    /\ today = 1 /\ booked = [c \in Call |-> 0]

At(c, s) == step' = [step EXCEPT ![c] = s]

\* stats.noteUnparsed and noteUnmasked count; noteDisclosed remembers.
seenOn(p) == noted' = [noted EXCEPT ![p] = IF isResponses(p) THEN 1 ELSE @ + 1]

\* Server.noteUnparsed, noteExperimentalUnmasked and noteResponsesRead: a line the
\* first time a path is posted to, whatever the configuration.
note(p) ==
    /\ seenOn(p)
    /\ told' = [told EXCEPT ![p] = IF noted[p] = 0 THEN @ + 1 ELSE @]

receive(c) ==
    LET a == ask[c]
        notes == localOnly(a) /\ a.post /\ ~ isMessages(a.path)
    IN  /\ step[c] = "new"
        /\ At(c, IF localOnly(a) THEN "noted" ELSE "done")
        /\ IF notes THEN note(a.path) ELSE UNCHANGED noteVars
        /\ UNCHANGED <<cfg, carried, wire, reply, breakerVars, heldVars, filed, refusedVars,
                       blindVars, countVars, today>>

\* A tenant that does not resolve is refused before anything is consulted.
refuseTenant(c) ==
    /\ step[c] = "noted" /\ ~ ResolveTenant(ask[c])
    /\ At(c, "refusing")
    /\ rec' = [rec EXCEPT ![c].refusal = "tenant_unresolved", ![c].session = ask[c].session]
    /\ UNCHANGED <<cfg, ask, payload, wire, reply, breakerVars, heldVars, filed, noteVars,
                   refusedVars, blindVars, countVars, today>>

\* Breaker.Allow.
refuseOpen(c) ==
    /\ step[c] = "noted" /\ ResolveTenant(ask[c])
    /\ At(c, "refusing")
    /\ rec' = [rec EXCEPT ![c].refusal = "circuit_open", ![c].session = ask[c].session]
    /\ UNCHANGED <<cfg, ask, payload, wire, reply, breakerVars, heldVars, filed, noteVars,
                   refusedVars, blindVars, countVars, today>>

admit(c, asProbe) ==
    /\ step[c] = "noted" /\ ResolveTenant(ask[c])
    /\ asProbe => ~ probing
    /\ At(c, "admitted")
    /\ probe' = IF asProbe THEN probe \cup {c} ELSE probe
    /\ probing' = (probing \/ asProbe)
    /\ rec' = [rec EXCEPT ![c].session = ask[c].session]
    /\ UNCHANGED <<cfg, ask, payload, wire, reply, observed, returned, heldVars, filed, noteVars,
                   refusedVars, blindVars, countVars, today>>

\* A body that cannot be read, or is too large, is answered with 400 or 413.
turnAway(c) ==
    /\ step[c] = "admitted" /\ ask[c].kind \in {"broken", "large"}
    /\ At(c, "returning")
    /\ UNCHANGED <<cfg, carried, wire, reply, breakerVars, heldVars, filed, noteVars, refusedVars,
                   blindVars, countVars, today>>

\* Mask, freeze, summarize, guard.  A guard refuses only what could be read.
prepare(c, stored, guard) ==
    LET a == ask[c]
        found == secretFound(a)
        body == (IF found THEN {"masked"} ELSE {}) \cup (IF freezes(a) THEN {"frozen"} ELSE {})
    IN  /\ step[c] = "admitted" /\ a.kind \notin {"broken", "large"}
        /\ guard # "none" => Guarded(a)
        /\ found \/ stored
        /\ At(c, IF guard = "none" THEN "guarded" ELSE "refusing")
        /\ payload' = [payload EXCEPT ![c] = body]
        /\ rec' = [rec EXCEPT ![c] =
               [before |-> IF Guarded(a) THEN {} ELSE NoHash, after |-> NoHash,
                masked |-> found, degraded |-> masks(a) /\ (~ stored \/ ~ isJSON(a)),
                frozen |-> freezes(a), policy |-> "none",
                session |-> @.session \/ (summarizes(a) /\ a.named),
                summarized |-> summarizes(a), refusal |-> guard]]
        /\ UNCHANGED <<cfg, ask, wire, reply, breakerVars, heldVars, filed, noteVars, refusedVars,
                       blindVars, countVars, today>>

\* Slip: the bracket is closed before the last rewrite.
enterHashedEarly(c, applied) ==
    LET a == ask[c]
        edited == payload[c] \cup (IF applied THEN {"edited"} ELSE {})
        body == edited \cup (IF asksUsage(a) THEN {"usage asked"} ELSE {})
    IN  /\ step[c] = "guarded" /\ (applied => mayEdit(c))
        /\ At(c, "in lane")
        /\ payload' = [payload EXCEPT ![c] = body]
        /\ rec' = [rec EXCEPT ![c] =
               [@ EXCEPT !.policy = IF asksUsage(a) THEN "openai-include-usage"
                                    ELSE IF applied THEN "context-edit" ELSE "none",
                         !.after = IF Guarded(a) THEN edited ELSE NoHash]]
        /\ inLane' = inLane \cup {c}
        /\ UNCHANGED <<cfg, ask, wire, reply, breakerVars, leading, filed, noteVars, refusedVars,
                       blindVars, countVars, today>>

\* applyPolicy, withUsageReporting, the second hash, and stats.enterLane.
enter(c, applied) ==
    LET a == ask[c]
        body == payload[c] \cup (IF applied THEN {"edited"} ELSE {})
                \cup (IF asksUsage(a) THEN {"usage asked"} ELSE {})
    IN  /\ step[c] = "guarded" /\ (applied => mayEdit(c))
        /\ At(c, "in lane")
        /\ payload' = [payload EXCEPT ![c] = body]
        /\ rec' = [rec EXCEPT ![c] =
               [@ EXCEPT !.policy = IF asksUsage(a) THEN "openai-include-usage"
                                    ELSE IF applied THEN "context-edit" ELSE "none",
                         !.after = IF Guarded(a) THEN body ELSE NoHash]]
        /\ inLane' = inLane \cup {c}
        /\ UNCHANGED <<cfg, ask, wire, reply, breakerVars, leading, filed, noteVars, refusedVars,
                       blindVars, countVars, today>>

\* siblings.enter, as the leader of a flight or not, and ServeHTTP.
forward(c, leads) ==
    /\ step[c] = "in lane"
    /\ leads => rec[c].summarized
    /\ At(c, "upstream")
    /\ leading' = IF leads THEN leading \cup {c} ELSE leading
    /\ wire' = [wire EXCEPT ![c] = payload[c]]
    /\ UNCHANGED <<cfg, carried, reply, breakerVars, inLane, filed, noteVars, refusedVars,
                   blindVars, countVars, today>>

\* The response has passed, or the client left before its status or in its body;
\* onHeaders ended the flight when there was a status.
respond(c, y) ==
    /\ step[c] = "upstream"
    /\ At(c, "replied")
    /\ reply' = [reply EXCEPT ![c] = y]
    /\ leading' = IF y.status # 0 THEN leading \ {c} ELSE leading
    /\ UNCHANGED <<cfg, carried, wire, breakerVars, inLane, filed, noteVars, refusedVars,
                   blindVars, countVars, today>>

-----------------------------------------------------------------------------
(* The deferred bookkeeping.                                                  *)

\* Breaker.Observe, of a call that has a status.
observeOutcome(c) ==
    LET seen == reply[c].status # 0
    IN  /\ step[c] = "replied"
        /\ At(c, "observed")
        /\ probing' = (probing /\ ~ seen)
        /\ observed' = IF seen THEN observed \cup {c} ELSE observed
        /\ UNCHANGED <<cfg, carried, wire, reply, probe, returned, heldVars, filed, noteVars,
                       refusedVars, blindVars, countVars, today>>

HasUsage(c) == readable(ask[c].path) /\ reply[c].body = "usage"
Succeeded(c) == reply[c].status = 200

\* Slip: a body that could not be read is counted with those that had no usage,
\* and one of no status too.
priceAsNoUsage(c) ==
    /\ step[c] = "observed"
    /\ At(c, "priced")
    /\ charged' = IF HasUsage(c) THEN charged \cup {c} ELSE charged
    /\ unused' = IF readable(ask[c].path) /\ ~ HasUsage(c) THEN unused + 1 ELSE unused
    /\ UNCHANGED <<cfg, carried, wire, reply, breakerVars, heldVars, filed, noteVars, refusedVars,
                   unreadable, countVars, today>>

\* SpendGuard.Record at listCost; or noteUnparsedBody, or noteNoUsage.
price(c) ==
    LET silent == readable(ask[c].path) /\ Succeeded(c) /\ ~ HasUsage(c)
        garbled == reply[c].body = "unread"
    IN  /\ step[c] = "observed"
        /\ At(c, "priced")
        /\ charged' = IF HasUsage(c) THEN charged \cup {c} ELSE charged
        /\ unused' = IF silent /\ ~ garbled THEN unused + 1 ELSE unused
        /\ unreadable' = IF silent /\ garbled THEN unreadable + 1 ELSE unreadable
        /\ UNCHANGED <<cfg, carried, wire, reply, breakerVars, heldVars, filed, noteVars,
                       refusedVars, countVars, today>>

Class(s) == IF s >= 500 THEN "5xx" ELSE IF s >= 400 THEN "4xx" ELSE "2xx"
Metered(c) == HasUsage(c) /\ rec[c].session
Priced(c) == Metered(c) /\ ask[c].known

\* stats.addCost: a new day starts at nothing.
addCost ==
    /\ costUSD' = costUSD + 1
    /\ dayCostUSD' = (IF dayStamp = today THEN dayCostUSD ELSE 0) + 1
    /\ dayStamp' = today

\* stats.observe: by class, and what carried usage in a session by its tokens.
count(c) ==
    /\ step[c] = "priced"
    /\ At(c, "counted")
    /\ latencyCount' = latencyCount + 1
    /\ requests' = IF reply[c].status = 0 THEN requests
                   ELSE [requests EXCEPT ![Class(reply[c].status)] = @ + 1]
    /\ metered' = IF Metered(c) THEN metered + 1 ELSE metered
    /\ unpriced' = IF Metered(c) /\ ~ Priced(c) THEN unpriced + 1 ELSE unpriced
    /\ IF Priced(c) THEN addCost ELSE UNCHANGED <<costUSD, dayCostUSD, dayStamp>>
    /\ booked' = IF Priced(c) THEN [booked EXCEPT ![c] = today] ELSE booked
    /\ UNCHANGED <<cfg, carried, wire, reply, breakerVars, heldVars, filed, noteVars,
                   refusedByKind, blindVars, today>>

\* leaveLane, before the ledger is written.
leave(c) ==
    /\ step[c] = "counted"
    /\ At(c, "left")
    /\ inLane' = inLane \ {c}
    /\ UNCHANGED <<cfg, carried, wire, reply, breakerVars, leading, filed, noteVars, refusedVars,
                   blindVars, countVars, today>>

\* Store.Append of a request that could be read and has a session.
file(c) ==
    /\ step[c] = "left"
    /\ At(c, "returning")
    /\ filed' = IF readable(ask[c].path) /\ rec[c].session THEN [filed EXCEPT ![c] = @ + 1]
                ELSE filed
    /\ UNCHANGED <<cfg, carried, wire, reply, breakerVars, heldVars, noteVars, refusedVars,
                   blindVars, countVars, today>>

\* recordRefusal, and refuse.
recordRefusal(c) ==
    /\ step[c] = "refusing"
    /\ At(c, "refused")
    /\ filed' = [filed EXCEPT ![c] = @ + 1]
    /\ UNCHANGED <<cfg, carried, wire, reply, breakerVars, heldVars, noteVars, refusedVars,
                   blindVars, countVars, today>>

refuse(c) ==
    /\ step[c] = "refused"
    /\ At(c, "returning")
    /\ requests' = [requests EXCEPT !["refused"] = @ + 1]
    /\ refusedByKind' = [refusedByKind EXCEPT ![rec[c].refusal] = @ + 1]
    /\ UNCHANGED <<cfg, carried, wire, reply, breakerVars, heldVars, filed, noteVars, blindVars,
                   countVars, today>>

\* Slip: only a call that reached the provider gives its probe back.
handBackAfterForward(c) ==
    LET gives == c \in probe /\ c \notin observed /\ wire[c] # NotSent
    IN  /\ step[c] = "returning"
        /\ At(c, "done")
        /\ probing' = (probing /\ ~ gives)
        /\ returned' = IF gives THEN returned \cup {c} ELSE returned
        /\ leading' = leading \ {c}
        /\ UNCHANGED <<cfg, carried, wire, reply, probe, observed, inLane, filed, noteVars,
                       refusedVars, blindVars, countVars, today>>

\* The other deferred functions: the gate's release, leaveLane again, and
\* Breaker.Release of a probe that saw no outcome.
handBack(c) ==
    LET gives == c \in probe /\ c \notin observed
    IN  /\ step[c] = "returning"
        /\ At(c, "done")
        /\ probing' = (probing /\ ~ gives)
        /\ returned' = IF gives THEN returned \cup {c} ELSE returned
        /\ leading' = leading \ {c}
        /\ UNCHANGED <<cfg, carried, wire, reply, probe, observed, inLane, filed, noteVars,
                       refusedVars, blindVars, countVars, today>>

Midnight ==
    /\ today < MaxToday /\ today' = today + 1
    /\ UNCHANGED <<cfg, step, carried, wire, reply, breakerVars, heldVars, filed, noteVars,
                   refusedVars, blindVars, countVars>>

PassageNext ==
    \/ Midnight
    \/ \E c \in Call :
        \/ receive(c) \/ refuseTenant(c) \/ refuseOpen(c) \/ turnAway(c)
        \/ \E asProbe \in BOOLEAN : admit(c, asProbe)
        \/ \E stored \in BOOLEAN,
              guard \in {"none", "spend_cap", "error_budget", "loop", "preflight_deficit"} :
              prepare(c, stored, guard)
        \/ \E applied \in BOOLEAN : enter(c, applied)
        \/ \E leads \in BOOLEAN : forward(c, leads)
        \/ \E y \in Replies \cup {NoReply} : respond(c, y)
        \/ observeOutcome(c) \/ price(c) \/ count(c) \/ leave(c) \/ file(c)
        \/ recordRefusal(c) \/ refuse(c) \/ handBack(c)

PassageSpec == PassageInit /\ [][PassageNext]_passageVars

-----------------------------------------------------------------------------
(* Properties.                                                                *)

\* What /replay/status and /replay/metrics answer: yesterday's figure is not today's.
Status ==
    [Requests |-> requests, Refusals |-> refusedByKind, CostUSD |-> costUSD,
     DayCostUSD |-> IF today = dayStamp THEN dayCostUSD ELSE 0,
     ResponsesWithoutUsage |-> unused, ResponsesUnparsed |-> unreadable]
Metrics ==
    [requests |-> requests, refused |-> refusedByKind, prompt_tokens |-> metered,
     cost_usd |-> costUSD, cost_usd_day |-> IF today # dayStamp THEN 0 ELSE dayCostUSD,
     cost_unpriced |-> unpriced, responses_without_usage |-> unused,
     responses_unparsed |-> unreadable, request_latency_count |-> latencyCount]

RecordType ==
    [before : (SUBSET Rewrites) \cup {NoHash}, after : (SUBSET Rewrites) \cup {NoHash},
     masked : BOOLEAN, degraded : BOOLEAN, frozen : BOOLEAN,
     policy : {"none", "context-edit", "openai-include-usage"}, session : BOOLEAN,
     summarized : BOOLEAN, refusal : Refusals \cup {"none"}]

ConfigType ==
    [Masker : BOOLEAN, FreezePrefix : BOOLEAN, Policy : BOOLEAN, Token : BOOLEAN,
     NoPolicy : BOOLEAN]
Stages ==
    {"new", "noted", "admitted", "refusing", "refused", "guarded", "in lane", "upstream",
     "replied", "observed", "priced", "counted", "left", "returning", "done"}

PassageTypeOK ==
    /\ cfg \in ConfigType
    /\ step \in [Call -> Stages]
    /\ ask \in [Call -> Asks] /\ payload \in [Call -> SUBSET Rewrites]
    /\ rec \in [Call -> RecordType]
    /\ wire \in [Call -> (SUBSET Rewrites) \cup {NotSent}]
    /\ reply \in [Call -> Replies \cup {NoReply}]
    /\ probe \subseteq Call /\ probing \in BOOLEAN
    /\ observed \subseteq Call /\ returned \subseteq Call /\ charged \subseteq Call
    /\ inLane \subseteq Call /\ leading \subseteq Call
    /\ filed \in [Call -> Nat] /\ noted \in [Paths -> Nat] /\ told \in [Paths -> Nat]
    /\ requests \in [Classes \cup {"refused"} -> Nat] /\ refusedByKind \in [Refusals -> Nat]
    /\ latencyCount \in Nat /\ unused \in Nat /\ unreadable \in Nat /\ metered \in Nat
    /\ unpriced \in Nat /\ costUSD \in Nat /\ dayCostUSD \in Nat /\ dayStamp \in 0..MaxToday
    /\ today \in 1..MaxToday /\ booked \in [Call -> 0..MaxToday]

\* However a call ends, refused, turned away, abandoned by its client or answered,
\* it leaves nothing behind: no lane registration, no flight that siblings wait
\* on, no probe slot.  A slot that is taken has a holder that is still on its
\* way.  A call that never went out is no observation of the provider.
NothingLeftBehind ==
    /\ PassageTypeOK
    /\ \A c \in Call : step[c] = "done" =>
        /\ c \notin inLane /\ c \notin leading
        /\ c \in probe => c \in observed \cup returned
    /\ probing => \E c \in probe : step[c] # "done" /\ c \notin observed
    /\ observed \cap returned = {}
    /\ \A c \in Call : wire[c] = NotSent =>
        c \notin observed /\ (c \in inLane => step[c] = "in lane")

\* The ledger says what was done to a request.  The second hash is that of the
\* bytes that were sent, the record names exactly the rewrites between the two,
\* and under REPLAY_NO_POLICY, or on a path that cannot be read, there are none.
BracketIsTrue ==
    \A c \in Call : wire[c] # NotSent =>
        /\ wire[c] = Named(rec[c])
        /\ Guarded(ask[c]) => rec[c].before = {} /\ rec[c].after = wire[c]
        /\ cfg.NoPolicy \/ ~ readable(ask[c].path) => wire[c] = {}

\* One call, one record: none of two, and of every call that was refused, or was
\* forwarded on a path that can be read for a session, one.
RecordedOnce ==
    \A c \in Call :
        /\ filed[c] <= 1
        /\ step[c] = "done" =>
            (filed[c] = 1 <=> \/ rec[c].refusal # "none"
                              \/ wire[c] # NotSent /\ readable(ask[c].path) /\ rec[c].session)

\* What the ledger says of a request is what was done to it, and it says it once
\* (BracketIsTrue, RecordedOnce).
RecordIsTrue == BracketIsTrue /\ RecordedOnce

\* The figures add up.  Every success on a path that can be read was seen by the
\* spend guard or is in one of the two counters of what no cap saw; every request
\* in the token counters has a price or is in the counter of those without; the
\* day's figure is what was priced today, on either endpoint; and a path without
\* guards was announced once.
Past(s) == {c \in Call : wire[c] # NotSent /\ step[c] \in s}
PastPrice == Past({"priced", "counted", "left", "returning", "done"})
PastCount == Past({"counted", "left", "returning", "done"})

FiguresAddUp ==
    /\ Cardinality({c \in PastPrice : readable(ask[c].path) /\ Succeeded(c)})
       = Cardinality({c \in charged : Succeeded(c)})
         + Status.ResponsesWithoutUsage + Status.ResponsesUnparsed
    /\ Metrics.request_latency_count = Cardinality(PastCount)
    /\ Metrics.prompt_tokens = Metrics.cost_usd + Metrics.cost_unpriced
    /\ Metrics.prompt_tokens = Cardinality({c \in PastCount : Metered(c)})
    /\ Status.DayCostUSD = Cardinality({c \in Call : booked[c] = today})
    /\ Metrics.cost_usd_day = Status.DayCostUSD /\ Metrics.cost_usd = Status.CostUSD
    /\ \A p \in Paths : told[p] = IF noted[p] = 0 THEN 0 ELSE 1

=============================================================================
