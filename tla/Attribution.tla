----------------------------- MODULE Attribution -----------------------------
(***************************************************************************)
(* What a lane's report says of its tokens (internal/analysis: calibrate,  *)
(* fit, blame, diff, errors, rereads, context).  A lane is recorded while  *)
(* a client and a provider, whose doings only show in the usage, do what   *)
(* they like: answer warm or cold, from an entry a sibling extended, after *)
(* a change of model; the client goes back, retries, lays its prefix anew; *)
(* the provider clears old results.  The report is computed from the       *)
(* requests alone, and compared with the content the lane was made of.     *)
(*                                                                         *)
(* A message has one block.  An output's blocks share its reported tokens, *)
(* whatever their kinds, and it makes one call, which the next result      *)
(* answers.  Content has a known size in tokens; bytes are what a reader   *)
(* sees of it.  Ratios are kept as fractions: the error of the fit enters  *)
(* only comparisons, where its square will do.                             *)
(***************************************************************************)
EXTENDS Integers, Sequences, FiniteSets, SequencesExt, FiniteSetsExt

CONSTANTS
    Results,        \* what a call may return: tokens, bytes, label, err
    OutTokens, OutBytes,        \* an output
    PrefixTokens, PrefixBytes,  \* the prefix; it grows by as much again
    MinFit,         \* minFitBytes
    TTL,
    MaxRequests, MaxOdd

VARIABLES
    visible,        \* whether the source shows the prefix (a ledger does)
    requests,       \* the lane
    hidden,         \* tokens of a prefix the source does not show
    gone,           \* tokens of shown content the provider no longer sees
    kept,           \* history: nothing that was in the context ever left it
    odd,            \* bound: the turns that were no plain continuation
    turns,          \* Calibrate and splitTurn of each request but the first
    fit, blame      \* the report, made anew after every request

attributionVars == <<visible, requests, hidden, gone, kept, odd, turns, fit, blame>>

Total(ms) == FoldLeft(LAMBDA n, m : n + m.tokens, 0, ms)
Bytes(ms) == FoldLeft(LAMBDA n, m : n + m.bytes, 0, ms)
Ids(ms) == {ms[i].id : i \in 1..Len(ms)}
PromptTotal(u) == u.input + u.creation + u.read

-----------------------------------------------------------------------------
(* Calibrate and splitTurn: a request against the one before it.           *)

\* The previous prompt but for its uncached tail.
ExpectedRead(u) == PromptTotal(u) - u.input

ClassifyRead(prev, cur) ==
    IF cur.read = ExpectedRead(prev) THEN "reproduced"
    ELSE IF cur.read > ExpectedRead(prev) THEN "exceeded" ELSE "broken"

Positive(n) == Max({n, 0})

\* Slip: the tail the previous request left uncached is taken for new content.
writtenWithTail(prev, cur) == cur.creation + cur.input

\* The write covers the previous request's uncached tail too.
written(prev, cur) == cur.creation + cur.input - prev.input

rebill(prev, cur) ==
    IF ClassifyRead(prev, cur) = "broken"
    THEN Min({ExpectedRead(prev) - cur.read, written(prev, cur)}) ELSE 0

\* What request cur brought to the lane.  New is what no earlier request carried,
\* wherever it stands; the previous output is not among it.
splitTurn(lane, cur) ==
    LET prev == lane[Len(lane)]
        seen == UNION {Ids(lane[j].context) : j \in 1..Len(lane)}
        blocks == SelectSeq(cur.context, LAMBDA m : m.id \notin seen /\ m.role # "assistant")
        known == Min({Len(prev.context), Len(cur.context)})
    IN [outcome |-> ClassifyRead(prev.usage, cur.usage),
        blocks |-> blocks,
        userBytes |-> Bytes(SelectSeq(blocks, LAMBDA m : m.role = "user")),
        prefixChanged |-> \E j \in 1..known : cur.context[j].id \notin seen,
        output |-> prev.usage.output,
        rebill |-> rebill(prev.usage, cur.usage),
        new |-> Positive(written(prev.usage, cur.usage) - rebill(prev.usage, cur.usage)
                         + Positive(cur.usage.read - ExpectedRead(prev.usage))
                         - prev.usage.output)]

-----------------------------------------------------------------------------
(* Fit.                                                                    *)

\* tokens per bytes, the default being a quarter.
EstimateTokens(f, b) == (2 * b * f.tokens + f.bytes) \div (2 * f.bytes)

\* The turns that show the ratio.
Samples(ts) ==
    SelectSeq(ts, LAMBDA t : /\ t.outcome = "reproduced" /\ ~t.prefixChanged
                             /\ t.userBytes >= MinFit /\ t.new > 0)

Product(ns) == FoldLeft(LAMBDA p, n : p * n, 1, ns)

\* The square of RelativeError as a fraction; one where no spread was taken.
weightedSpread(ss, tokens, bytes) ==
    LET n == Len(ss)
        weights == [i \in 1..n |-> ss[i].userBytes]
        apart(i) == ss[i].new * bytes - tokens * ss[i].userBytes
        term(i) == apart(i) * apart(i) * Product([weights EXCEPT ![i] = 1])
    IN IF n < 2 THEN [num |-> 1, den |-> 1]
       ELSE [num |-> FoldLeft(LAMBDA m, i : m + term(i), 0, [i \in 1..n |-> i]),
             den |-> Product(weights) * bytes * tokens * tokens]

Ratio(ss) ==
    IF ss = <<>> THEN [tokens |-> 1, bytes |-> 4]
    ELSE [tokens |-> FoldLeft(LAMBDA n, t : n + t.new, 0, ss),
          bytes |-> FoldLeft(LAMBDA n, t : n + t.userBytes, 0, ss)]

\* The prefix ahead of the first message, and what came with it unseen: read off
\* a first request that found a warm cache, estimated otherwise.
Ahead(u, seen) ==
    IF visible THEN [unseen |-> 0, injected |-> 0]
    ELSE IF u.read > 0
         THEN [unseen |-> u.read, injected |-> Positive(PromptTotal(u) - u.read - seen)]
         ELSE [unseen |-> Positive(PromptTotal(u) - seen), injected |-> 0]

Fit(first, ss) ==
    LET r == Ratio(ss)
        ahead == Ahead(first.usage, EstimateTokens(r, Bytes(first.context)))
    IN [samples |-> Len(ss), tokens |-> r.tokens, bytes |-> r.bytes,
        error |-> weightedSpread(ss, r.tokens, r.bytes),
        unseen |-> ahead.unseen, injected |-> ahead.injected]

ErrorMeasured == fit.samples >= 2

\* d <= n * RelativeError.
WithinError(f, d, n) == d <= 0 \/ d * d * f.error.den <= n * n * f.error.num

-----------------------------------------------------------------------------
(* Blame.                                                                  *)

Labels == {r.label : r \in Results}
              \cup {"output", "tools", "unseen", "injected", "unaccounted", "rebill"}

add(acc, label, n) == [acc EXCEPT ![label] = @ + n]

\* A share for each block by its bytes; the last one absorbs the rounding.
shareByBytes(acc, bs, tokens) ==
    LET all == Bytes(bs)
        share(i) == (tokens * bs[i].bytes) \div all
        rest == tokens - FoldLeft(LAMBDA n, i : n + share(i), 0, [i \in 1..Len(bs) - 1 |-> i])
    IN IF tokens <= 0 \/ bs = <<>> THEN acc
       ELSE FoldLeft(LAMBDA a, i : add(a, bs[i].label, IF i = Len(bs) THEN rest ELSE share(i)),
                     acc, [i \in 1..Len(bs) |-> i])

\* Beyond what the bytes can be worth, the excess is named, not shared.
shareWithinTheFit(f, acc, bs, tokens) ==
    LET accountable == EstimateTokens(f, Bytes(bs))
    IN IF tokens <= 0 \/ bs = <<>> \/ WithinError(f, tokens - accountable, accountable)
         THEN shareByBytes(acc, bs, tokens)
       ELSE add(shareByBytes(acc, bs, accountable), "unaccounted", tokens - accountable)

\* Tokens by label, each block counted once.
Blame(first, ts, f) ==
    LET shown == PromptTotal(first.usage) - f.unseen - f.injected
        begun == shareByBytes([l \in Labels |-> 0], first.context, shown)
    IN FoldLeft(LAMBDA acc, t :
                    shareWithinTheFit(f, add(add(acc, "rebill", t.rebill), "output", t.output),
                                      t.blocks, t.new),
                add(add(begun, "unseen", f.unseen), "injected", f.injected), ts)

\* The lane has one more request, and its report is made.
Recorded(r) ==
    /\ requests' = Append(requests, r)
    /\ turns' = IF requests = <<>> THEN <<>> ELSE Append(turns, splitTurn(requests, r))
    /\ fit' = Fit(requests'[1], Samples(turns'))
    /\ blame' = Blame(requests'[1], turns', fit')

-----------------------------------------------------------------------------
(* The lane: client and provider.                                          *)

Latest == requests[Len(requests)]
NewId == 10 * (Len(requests) + 1)

Result(r, id) ==
    [id |-> id, role |-> "user", bytes |-> r.bytes, tokens |-> r.tokens,
     label |-> r.label, err |-> r.err]
Answer(r, id) ==
    [id |-> id, role |-> "assistant", bytes |-> OutBytes, tokens |-> OutTokens,
     label |-> r.label, err |-> FALSE]
Definitions(times, id) ==
    [id |-> id, role |-> "system", bytes |-> times * PrefixBytes,
     tokens |-> times * PrefixTokens, label |-> "tools", err |-> FALSE]

\* A request with context c of which the provider read `read` tokens; `tail`
\* stands after the last breakpoint and is not written.
Request(c, prompt, read, tail, gap, model, cleared) ==
    [context |-> c, gap |-> gap, model |-> model, cleared |-> cleared,
     usage |-> [input |-> tail, creation |-> prompt - read - tail, read |-> read,
                output |-> OutTokens]]

Init ==
    /\ requests = <<>> /\ gone = 0 /\ kept = TRUE /\ odd = 0
    /\ turns = <<>> /\ fit = <<>> /\ blame = <<>>
    /\ visible \in BOOLEAN
    /\ hidden = IF visible THEN 0 ELSE PrefixTokens

\* The first request may find the shared prefix cached.
First(r, read) ==
    /\ requests = <<>>
    /\ read \in {0, PrefixTokens}
    /\ LET c == (IF visible THEN <<Definitions(1, 1)>> ELSE <<>>) \o <<Result(r, NewId)>>
       IN Recorded(Request(c, hidden + Total(c), read, 0, 0, 1, 0))
    /\ UNCHANGED <<visible, hidden, gone, kept, odd>>

\* Where the context of a turn comes from.
Continued(r) == Latest.context \o <<Answer(r, NewId), Result(r, NewId + 1)>>
Rewound(r) == Append(Front(Latest.context), Result(r, NewId + 1))
Relaid(r) == [Continued(r) EXCEPT ![1] = Definitions(2, NewId + 2)]

\* Tokens both prompts begin with.
Shared(c) ==
    LET p == Latest.context
        same == {i \in 0..Len(p) : i <= Len(c) /\ \A j \in 1..i : p[j] = c[j]}
    IN hidden + Total(SubSeq(c, 1, Max(same))) - gone

\* A turn with context c and a prompt of which `intact` tokens are as before.
\* The provider reads what is left of the entry, all of it where a sibling wrote
\* the rest, and nothing after the lifetime, another model or an eviction.
Turn(how, c, prompt, intact, tail, cleared) ==
    LET warm == Min({intact, ExpectedRead(Latest.usage)})
        turn(read, gap, model) == Request(c, prompt, read, tail, gap, model, cleared)
    IN Recorded(
        CASE how = "warm" -> turn(warm, 0, Latest.model)
          [] how = "sibling" -> turn(prompt - tail, 0, Latest.model)
          [] how = "evicted" -> turn(0, 0, Latest.model)
          [] how = "partly" -> turn(Min({warm, PrefixTokens}), 0, Latest.model)
          [] how = "expired" -> turn(0, TTL + 1, Latest.model)
          [] how = "model" -> turn(0, 0, Latest.model + 1))

Reads == {"warm", "sibling", "evicted", "partly", "expired", "model"}

May(how, more) ==
    /\ requests # <<>> /\ Len(requests) < MaxRequests
    /\ odd' = odd + more + (IF how = "warm" THEN 0 ELSE 1)
    /\ odd' <= MaxOdd

Continue(r, how, tail) ==
    /\ May(how, 0)
    /\ Turn(how, Continued(r), hidden + Total(Continued(r)) - gone, Shared(Continued(r)), tail, 0)
    /\ UNCHANGED <<visible, hidden, gone, kept>>

\* The user goes back and asks something else.
Rewind(r, how) ==
    /\ May(how, 1) /\ how # "sibling" /\ gone = 0
    /\ Turn(how, Rewound(r), hidden + Total(Rewound(r)), Shared(Rewound(r)), 0, 0)
    /\ kept' = FALSE
    /\ UNCHANGED <<visible, hidden, gone>>

\* The same request again: its predecessor's answer was lost.
Retry(how) ==
    /\ May(how, 1) /\ how # "sibling"
    /\ Turn(how, Latest.context, PromptTotal(Latest.usage), PromptTotal(Latest.usage), 0, 0)
    /\ kept' = FALSE
    /\ UNCHANGED <<visible, hidden, gone>>

\* Tool definitions bind late: the prefix is another one, and larger.
Bind(r) ==
    /\ May("warm", 1) /\ gone = 0
    /\ IF visible
         THEN /\ Latest.context[1].id = 1
              /\ Turn("evicted", Relaid(r), Total(Relaid(r)), 0, 0, 0)
              /\ UNCHANGED hidden
         ELSE /\ hidden = PrefixTokens
              /\ hidden' = 2 * PrefixTokens
              /\ Turn("evicted", Continued(r), hidden' + Total(Continued(r)), 0, 0, 0)
    /\ UNCHANGED <<visible, gone, kept>>

\* The provider clears the lane's first result and says so.
Clear(r) ==
    LET old == requests[1].context[Len(requests[1].context)]
    IN /\ May("warm", 1)
       /\ gone = 0 /\ Len(Latest.context) > 2 /\ old \in Range(Latest.context)
       /\ gone' = old.tokens
       /\ Turn("warm", Continued(r), hidden + Total(Continued(r)) - gone',
               hidden + (IF visible THEN Latest.context[1].tokens ELSE 0), 0, old.tokens)
       /\ kept' = FALSE
       /\ UNCHANGED <<visible, hidden>>

Next ==
    \/ \E r \in Results : \/ \E read \in {0, PrefixTokens} : First(r, read)
                          \/ \E how \in Reads, tail \in {0, 1} : Continue(r, how, tail)
                          \/ \E how \in Reads : Rewind(r, how)
                          \/ Bind(r) \/ Clear(r)
    \/ \E how \in Reads : Retry(how)

Spec == Init /\ [][Next]_attributionVars

-----------------------------------------------------------------------------
(* What the report's readers make of it.                                   *)

\* EnteredContext: the rebill row is a cost, not content.
Entered == MapThenSumSet(LAMBDA l : blame[l], Labels \ {"rebill"})

-----------------------------------------------------------------------------
(* MeasureGap, for a source on which no compaction is recorded.            *)

ClearedTokens == FoldLeft(LAMBDA n, r : n + r.cleared, 0, requests)
InferredCompactions ==
    {i \in 2..Len(requests) : PromptTotal(requests[i].usage) < PromptTotal(requests[i - 1].usage)}
Overstated == ClearedTokens > 0 \/ InferredCompactions # {}

-----------------------------------------------------------------------------
(* FindBreaks.                                                             *)

\* The first position within their shared length where two contexts differ,
\* or the end of one cut short; 0 for none.
firstDivergence(p, c) ==
    LET n == Min({Len(p), Len(c)})
        differ == {i \in 1..n : p[i].id # c[i].id \/ p[i].bytes # c[i].bytes}
    IN IF differ # {} THEN Min(differ) ELSE IF Len(c) < Len(p) THEN Len(c) + 1 ELSE 0

Near(read) == 10 * (read - fit.unseen) \in -fit.unseen..fit.unseen

\* What usage and timing settle comes first, then what the history shows.
classify(i) ==
    LET prev == requests[i - 1]
        cur == requests[i]
        at == firstDivergence(prev.context, cur.context)
    IN CASE cur.gap > TTL -> [cause |-> "expired", at |-> 0]
         [] cur.gap <= TTL /\ prev.model # cur.model -> [cause |-> "model", at |-> 0]
         [] cur.gap <= TTL /\ prev.model = cur.model /\ cur.usage.read = 0 ->
                [cause |-> "prefix", at |-> 0]
         [] OTHER -> IF at # 0 THEN [cause |-> "history", at |-> at]
                     ELSE IF fit.unseen > 0 /\ Near(cur.usage.read) THEN [cause |-> "rerendered", at |-> 1]
                     ELSE [cause |-> "unknown", at |-> 0]

Breaks == {i \in 2..Len(requests) : turns[i - 1].outcome = "broken"}

-----------------------------------------------------------------------------
(* ErrorCosts and CountReReads.                                            *)

Carried(id) == Cardinality({i \in 1..Len(requests) : id \in Ids(requests[i].context)})
Everything == UNION {Range(requests[i].context) : i \in 1..Len(requests)}

\* The failed results, each classified once and priced by the requests that
\* carried it, with the call that led to it.
Failed == {m \in Everything : m.role = "user" /\ m.err}
CallOf(m) == {c \in Everything : c.role = "assistant" /\ c.id = m.id - 1}
FailedSize(m) ==
    EstimateTokens(fit, m.bytes + (IF CallOf(m) = {} THEN 0 ELSE OutBytes))
FailedPrompt == MapThenSumSet(LAMBDA m : FailedSize(m) * Carried(m.id), Failed)

\* Results past the length of the previous context, in order.
Fresh(i) ==
    LET from == IF i = 1 THEN 0 ELSE Min({Len(requests[i - 1].context), Len(requests[i].context)})
    IN SelectSeq(SubSeq(requests[i].context, from + 1, Len(requests[i].context)),
                 LAMBDA m : m.role = "user")
Read == FlattenSeq([i \in 1..Len(requests) |-> Fresh(i)])
Repeated == {i \in 1..Len(Read) : \E j \in 1..i - 1 : Read[j].label = Read[i].label}

-----------------------------------------------------------------------------
TypeOK ==
    /\ Len(requests) <= MaxRequests /\ odd \in 0..MaxOdd /\ kept \in BOOLEAN
    /\ \A i \in 1..Len(requests) : requests[i].usage.creation >= 0

True(label) == Total(SelectSeq(Latest.context, LAMBDA m : m.label = label /\ m.role = "user"))

\* Results of one density only, so that the fit has a truth to find.
Uniform ==
    \A m, n \in {x \in Everything : x.role = "user"} : m.tokens * n.bytes = n.tokens * m.bytes

\* Whatever was read warm, cold, in part or past what the lane itself wrote, and
\* whatever tails were left uncached: what the report attributes is never less
\* than the last prompt, and is exactly that prompt while nothing left the
\* context; then it is not called overstated, and it is when a prompt shrank or
\* the provider cleared something.  Only turns that show the ratio enter the
\* fit, so where content has one density a fit is that density; and from two
\* turns on, while nothing left and the prefix is unseen, every result is given
\* its own size and a prefix that grew unseen is accounted to nobody.  A break
\* is put down to the client's history only where the client changed it, and a
\* history that changed is never passed over for an unexplained break.  A failed
\* result is charged for the requests that carried it and no other, and a path
\* read again is found.
AttributionIsTrue ==
    TypeOK /\ (requests # <<>> =>
        LET prompt == PromptTotal(Latest.usage)
        IN /\ Entered >= prompt
           /\ kept => Entered = prompt /\ ~Overstated
           /\ gone > 0 => Overstated
           /\ Uniform => \A m \in Everything :
                fit.samples > 0 /\ m.role = "user" => fit.tokens * m.bytes = fit.bytes * m.tokens
           /\ kept /\ Uniform /\ ~visible /\ ErrorMeasured =>
                /\ \A l \in {r.label : r \in Results} : blame[l] = True(l)
                /\ blame["unseen"] + blame["unaccounted"] = hidden
                /\ blame["injected"] = 0
           /\ \A i \in Breaks :
                /\ classify(i).cause \in {"rerendered", "unknown"} =>
                        IsPrefix(requests[i - 1].context, requests[i].context)
                /\ classify(i).cause = "history" =>
                        \A j \in 1..classify(i).at - 1 :
                            requests[i].context[j] = requests[i - 1].context[j]
           /\ FailedPrompt = FoldLeft(LAMBDA n, r : n + MapThenSumSet(FailedSize,
                                          Failed \cap Range(r.context)), 0, requests)
           /\ kept => /\ Len(Read) = Cardinality({m \in Everything : m.role = "user"})
                      /\ Cardinality(Repeated) = Len(Read) - Cardinality({Read[i].label : i \in 1..Len(Read)}))

=============================================================================
