------------------------------- MODULE Rollout -------------------------------
(***************************************************************************)
(* Reading a Codex rollout log (internal/transcript/codex.go).  The client *)
(* writes a token_count after a response, with the usage of that response  *)
(* and a running total, and again, unchanged, when there was no new        *)
(* response; a compaction starts the running total over.  The reader takes *)
(* one line at a time and keeps no earlier line, so a step is a line       *)
(* written and read; a log read at any moment is a prefix of these steps.  *)
(*                                                                         *)
(* made, last, cumulative, repeated and straddled are the client's: the    *)
(* responses it had, in order, and what it will write next.  Names,        *)
(* versions and models are copied as they come and are left out.           *)
(***************************************************************************)
EXTENDS Integers, FiniteSets, FiniteSetsExt, Sequences

CONSTANTS
    Usage,          \* the usage records a response may come with
    WarmShare, ColdShare,   \* codexWarmShare and codexColdShare, in percent
    MinColdRead,    \* codexMinColdRead
    MaxWritten      \* bound: lines of the log

VARIABLES
    written,        \* lines so far, CodexSession.line
    made, last, cumulative, repeated, garbled, straddled,
    billed, counted,  \* CodexSession, from here on; counted is Turns
    reported, rebased, reEmitted, skipped, unparsable, breaks,
    prevShare, prevTotal, seenTotal

clientVars == <<made, last, cumulative, repeated, garbled, straddled>>
readerVars == <<billed, counted, reported, rebased, reEmitted, skipped, unparsable, breaks,
                prevShare, prevTotal, seenTotal>>
rolloutVars == <<written, clientVars, readerVars>>

None == [total |-> -1]
NoShare == [read |-> 0, prompt |-> 1]
Nothing == [input |-> 0, creation |-> 0, read |-> 0, output |-> 0]

RolloutInit ==
    /\ written = 0
    /\ made = <<>> /\ last = None /\ cumulative = 0
    /\ repeated = 0 /\ garbled = 0 /\ straddled = FALSE
    /\ billed = Nothing /\ counted = 0 /\ reported = 0 /\ rebased = FALSE
    /\ reEmitted = 0 /\ skipped = 0 /\ unparsable = 0 /\ breaks = <<>>
    /\ prevShare = NoShare /\ prevTotal = 0 /\ seenTotal = FALSE

-----------------------------------------------------------------------------
(* The reader.                                                             *)

\* codexUsage.usage refuses shares that exceed their whole, and a total
\* without a breakdown.
usable(u) ==
    /\ u.cached + u.write <= u.input /\ u.reasoning <= u.output
    /\ ~(u.total > 0 /\ u.input + u.output = 0)

\* A response has a prompt, and its total is the sum of its two sides.
ASSUME UsageAssumption ==
    /\ \A u \in Usage :
          /\ {u.input, u.cached, u.write, u.output, u.reasoning, u.total} \subseteq Nat
          /\ usable(u) => u.input > 0 /\ u.total = u.input + u.output
    /\ {WarmShare, ColdShare, MinColdRead, MaxWritten} \subseteq Nat

\* Codex counts inclusively, Usage exclusively.
exclusive(u) ==
    [input |-> u.input - u.cached - u.write, creation |-> u.write, read |-> u.cached,
     output |-> u.output]

add(a, b) ==
    [input |-> a.input + b.input, creation |-> a.creation + b.creation,
     read |-> a.read + b.read, output |-> a.output + b.output]

PromptOf(u) == u.input + u.creation + u.read
Total(u) == PromptOf(u) + u.output

Warm(s) == 100 * s.read > WarmShare * s.prompt
Cold(s) == 100 * s.read < ColdShare * s.prompt

\* A turn whose cached share collapsed against the turn before.
observeCache(u) ==
    LET share == [read |-> u.read, prompt |-> PromptOf(u)]
    IN IF share.prompt = 0 THEN UNCHANGED <<breaks, prevShare>>
       ELSE /\ breaks' = IF Warm(prevShare) /\ Cold(share) /\ share.prompt >= MinColdRead
                         THEN Append(breaks, [line |-> written', cold |-> u.input])
                         ELSE breaks
            /\ prevShare' = share

\* Slip: a record that repeats the usage of the one before is a re-emission.
advancedByDelta(u, total) == u # last

\* A record is a new contribution when the running total moved.
advanced(u, total) == ~seenTotal \/ total # prevTotal

\* One token_count with usage u and running total `total`.  The total's own
\* breakdown is the sum of what it counts.
tokenCount(u, total) ==
    /\ prevTotal' = total /\ seenTotal' = TRUE
    /\ reported' = total
    /\ IF ~usable(u)
         THEN /\ skipped' = skipped + 1
              /\ UNCHANGED <<billed, counted, reEmitted, breaks, prevShare>>
       ELSE IF advanced(u, total)
         THEN /\ billed' = add(billed, exclusive(u))
              /\ counted' = counted + 1
              /\ observeCache(exclusive(u))
              /\ UNCHANGED <<reEmitted, skipped>>
       ELSE /\ reEmitted' = reEmitted + 1
            /\ UNCHANGED <<billed, counted, skipped, breaks, prevShare>>
    /\ UNCHANGED <<rebased, unparsable>>

-----------------------------------------------------------------------------
(* The client, a line at a time.                                           *)

Line == written < MaxWritten /\ written' = written + 1

\* A response, and its token_count.
Turn(u) ==
    /\ Line
    /\ made' = Append(made, u) /\ last' = u /\ cumulative' = cumulative + u.total
    /\ straddled' = (straddled \/ (rebased /\ seenTotal /\ cumulative' = prevTotal))
    /\ tokenCount(u, cumulative')
    /\ UNCHANGED <<repeated, garbled>>

\* A token_count that follows no response.
Repeat ==
    /\ Line /\ last # None
    /\ repeated' = repeated + 1
    /\ straddled' = (straddled \/ cumulative # prevTotal)
    /\ tokenCount(last, cumulative)
    /\ UNCHANGED <<made, last, cumulative, garbled>>

\* The opening token_count carries rate limits and no usage: not a turn.
QuotaOnly ==
    /\ Line
    /\ UNCHANGED <<clientVars, readerVars>>

\* context_compacted.
Compacted ==
    /\ Line /\ made # <<>>
    /\ cumulative' = 0
    /\ rebased' = TRUE
    /\ UNCHANGED <<made, last, repeated, garbled, straddled, billed, counted, reported,
                   reEmitted, skipped, unparsable, breaks, prevShare, prevTotal, seenTotal>>

\* A line, or a payload, that is no JSON: a write cut short.
Garbled ==
    /\ Line
    /\ garbled' = garbled + 1
    /\ skipped' = skipped + 1 /\ unparsable' = unparsable + 1
    /\ UNCHANGED <<made, last, cumulative, repeated, straddled, billed, counted, reported,
                   rebased, reEmitted, breaks, prevShare, prevTotal, seenTotal>>

RolloutNext == (\E u \in Usage : Turn(u)) \/ Repeat \/ QuotaOnly \/ Compacted \/ Garbled

RolloutSpec == RolloutInit /\ [][RolloutNext]_rolloutVars

-----------------------------------------------------------------------------
RolloutTypeOK ==
    /\ written \in 0..MaxWritten
    /\ made \in Seq(Usage) /\ last \in Usage \cup {None}
    /\ billed \in [{"input", "creation", "read", "output"} -> Nat]
    /\ {counted, reported, reEmitted, skipped, unparsable, Len(breaks)} \subseteq Nat
    /\ rebased \in BOOLEAN /\ seenTotal \in BOOLEAN /\ straddled \in BOOLEAN

\* The responses a reader can use, by their place, and a sum over them.
Good == {i \in DOMAIN made : usable(made[i])}
Sum(v) == SumFunctionOnSet(v, Good)
Follows(i, j) == j < i /\ \A k \in Good : ~(j < k /\ k < i)
Collapses(a, b) ==
    /\ 100 * a.cached > WarmShare * a.input /\ 100 * b.cached < ColdShare * b.input
    /\ b.input >= MinColdRead

\* However often the client repeats itself, and whatever lines it garbles:
\* every response is billed exactly once, cache and all, and counted as one turn;
\* every other record is in exactly one of the counts that explain it; without a
\* compaction the bill is the client's own total; and a cache break is reported
\* for each response that came cold after a warm one, repetitions between them
\* notwithstanding.  Excepted is a log whose running total started over and was
\* then written with no new response behind it, or came to stand where it stood.
BilledOnce ==
    /\ RolloutTypeOK
    /\ ~straddled =>
        /\ PromptOf(billed) = Sum([i \in DOMAIN made |-> made[i].input])
        /\ billed.read = Sum([i \in DOMAIN made |-> made[i].cached])
        /\ billed.output = Sum([i \in DOMAIN made |-> made[i].output])
        /\ counted = Cardinality(Good)
        /\ counted + reEmitted + skipped = Len(made) + repeated + garbled
        /\ unparsable = garbled
        /\ ~rebased /\ Good = DOMAIN made => reported = Total(billed)
        /\ Len(breaks) = Cardinality({i \in Good : \E j \in Good :
                                         Follows(i, j) /\ Collapses(made[j], made[i])})

=============================================================================
