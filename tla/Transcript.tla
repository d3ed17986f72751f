----------------------------- MODULE Transcript -----------------------------
(***************************************************************************)
(* Reading a Claude Code transcript while the client is still writing it   *)
(* (internal/transcript/claudecode.go).  The client appends lines to one   *)
(* file: the main conversation and a sub-agent's interleave there, a       *)
(* response is written a block at a time with tool results between, the    *)
(* user goes back to an earlier prompt, a compaction is a pair of lines.   *)
(* ParseClaudeCode turns the lines there are into requests, each with the  *)
(* context found by walking the parent chain, in lanes.                    *)
(*                                                                         *)
(* A line's uuid is its number and its content is the line itself, so a    *)
(* context is the sequence of the lines whose content it carries.  Parents *)
(* are earlier lines: the walk's check for a cycle has no counterpart.     *)
(*                                                                         *)
(* said, sent, compacted and unusable are the client's own account of what *)
(* it did, which the reader does not see.                                  *)
(***************************************************************************)
EXTENDS Integers, FiniteSets, Sequences, SequencesExt, FiniteSetsExt

CONSTANTS
    MaxLines,   \* bound: lines of the file
    MaxBlocks,  \* bound: blocks of a response
    MaxNoise,   \* bound: lines that are no part of an exchange
    Parallel    \* whether a result may come after later calls of its response

VARIABLES
    lines,      \* the file
    paired,     \* whether this client writes a boundary before a summary
    tip,        \* the last line of each conversation
    open,       \* the response each conversation is receiving, or 0
    pending,    \* whether a boundary still waits for its summary
    said,       \* the conversation as it stands: the lines sent with a request
    sent,       \* for each response, what it was an answer to
    compacted,  \* the compactions there have been
    unusable    \* the lines and requests nobody could use

transcriptVars ==
    <<lines, paired, tip, open, pending, said, sent, compacted, unusable>>

Conversation == {"main", "agent"}
Roles == {"user", "assistant"}
Fresh == Len(lines) + 1

-----------------------------------------------------------------------------
(* The client.                                                             *)

Plain ==
    [type |-> "system", parent |-> 0, key |-> 0, block |-> 0, agent |-> FALSE,
     usage |-> FALSE, error |-> FALSE, boundary |-> FALSE, summary |-> FALSE,
     prompt |-> FALSE, answers |-> 0]

Init ==
    /\ lines = <<>>
    /\ paired \in BOOLEAN
    /\ tip = [c \in Conversation |-> 0]
    /\ open = [c \in Conversation |-> 0]
    /\ pending = FALSE
    /\ said = [c \in Conversation |-> <<>>]
    /\ sent = <<>>
    /\ compacted = 0
    /\ unusable = 0

\* A line is added to conversation c below its tip.
Write(c, l) ==
    /\ Len(lines) < MaxLines
    /\ lines' = Append(lines, [l EXCEPT !.parent = tip[c], !.agent = c = "agent"])
    /\ tip' = [tip EXCEPT ![c] = Fresh]

Says(c) == said' = [said EXCEPT ![c] = Append(@, Fresh)]

\* The user writes a prompt.  A compaction that was interrupted before its
\* summary stays without one.
Prompt ==
    /\ Write("main", [Plain EXCEPT !.type = "user", !.prompt = TRUE])
    /\ Says("main")
    /\ open' = [open EXCEPT !.main = 0]
    /\ pending' = FALSE
    /\ UNCHANGED <<paired, sent, compacted, unusable>>

\* A sub-agent is started: a conversation with a root of its own.
Spawn ==
    /\ said.main # <<>> /\ Len(lines) < MaxLines
    /\ lines' = Append(lines, [Plain EXCEPT !.type = "user", !.agent = TRUE])
    /\ tip' = [tip EXCEPT !.agent = Fresh]
    /\ said' = [said EXCEPT !.agent = <<Fresh>>]
    /\ open' = [open EXCEPT !.agent = 0]
    /\ UNCHANGED <<paired, pending, sent, compacted, unusable>>

\* The user goes back to an earlier prompt p and writes another in its place.
Reprompt(p) ==
    /\ lines[p].prompt /\ ~pending
    /\ Len(lines) < MaxLines
    /\ lines' = Append(lines, lines[p])
    /\ tip' = [tip EXCEPT !.main = Fresh]
    /\ said' = [said EXCEPT !.main =
                    Append(SelectSeq(@, LAMBDA n : n < p), Fresh)]
    /\ open' = [open EXCEPT !.main = 0]
    /\ UNCHANGED <<paired, pending, sent, compacted, unusable>>

\* The lines of response k written so far.
Written(k) == {n \in 1..Len(lines) : lines[n].type = "assistant" /\ lines[n].key = k}

\* Those of them whose call has its result; every block is a call or the last.
Answered(k) == {n \in Written(k) : \E m \in 1..Len(lines) : lines[m].answers = n}

\* A response begins.  One that is interrupted leaves a line without usage.
Respond(c, usage) ==
    /\ said[c] # <<>> /\ lines[Last(said[c])].type = "user"
    /\ open[c] # 0 => Answered(open[c]) = Written(open[c])
    /\ c = "main" => ~pending
    /\ Write(c, [Plain EXCEPT !.type = "assistant", !.key = Fresh, !.usage = usage])
    /\ Says(c)
    /\ open' = [open EXCEPT ![c] = Fresh]
    /\ sent' = [k \in DOMAIN sent \cup {Fresh} |->
                    IF k \in DOMAIN sent THEN sent[k]
                    ELSE [said |-> said[c], agent |-> c = "agent", usage |-> usage,
                          after |-> c = "main" /\ compacted > 0]]
    /\ unusable' = unusable + (IF usage THEN 0 ELSE 1)
    /\ UNCHANGED <<paired, pending, compacted>>

\* The next block of a response, after its predecessor or after results of
\* the calls its predecessors made.
Block(c) ==
    LET k == open[c]
    IN /\ k # 0 /\ Cardinality(Written(k)) < MaxBlocks
       /\ Write(c, [Plain EXCEPT !.type = "assistant", !.key = k,
                        !.block = Cardinality(Written(k)), !.usage = sent[k].usage])
       /\ Says(c)
       /\ UNCHANGED <<paired, open, pending, sent, compacted, unusable>>

\* The result of the first call of the response that has none: it hangs below
\* the line of that call, and whatever comes next hangs below the result.
Result(c) ==
    LET unanswered == Written(open[c]) \ Answered(open[c])
        call == Min(unanswered)
    IN /\ open[c] # 0 /\ unanswered # {}
       /\ Parallel \/ call = tip[c]
       /\ Len(lines) < MaxLines
       /\ lines' = Append(lines, [Plain EXCEPT !.type = "user", !.parent = call,
                                     !.answers = call, !.agent = c = "agent"])
       /\ tip' = [tip EXCEPT ![c] = Fresh]
       /\ Says(c)
       /\ UNCHANGED <<paired, open, pending, sent, compacted, unusable>>

\* Errors, hooks and housekeeping so far.
Noise ==
    {n \in 1..Len(lines) : \/ lines[n].error \/ lines[n].type = "none"
                           \/ lines[n].type = "system" /\ ~lines[n].boundary}

\* The client writes an API error into the conversation, as an assistant's
\* line with a request id or without one.
ApiError(c, k) ==
    /\ said[c] # <<>> /\ open[c] = 0 /\ (c = "main" => ~pending)
    /\ Cardinality(Noise) < MaxNoise
    /\ Write(c, [Plain EXCEPT !.type = "assistant", !.key = k, !.usage = TRUE,
                    !.error = TRUE])
    /\ Says(c)
    /\ UNCHANGED <<paired, open, pending, sent, compacted, unusable>>

\* A hook's summary is in the chain and is not sent.
Hook(c) ==
    /\ tip[c] # 0 /\ Cardinality(Noise) < MaxNoise
    /\ Write(c, Plain)
    /\ UNCHANGED <<paired, open, pending, said, sent, compacted, unusable>>

\* A queue operation or a change of mode: a line without a uuid.
Housekeeping ==
    /\ Len(lines) < MaxLines /\ Cardinality(Noise) < MaxNoise
    /\ lines' = Append(lines, [Plain EXCEPT !.type = "none"])
    /\ unusable' = unusable + 1
    /\ UNCHANGED <<paired, tip, open, pending, said, sent, compacted>>

\* A compaction starts a chain of its own: with the boundary, or with the
\* summary where the client writes no boundaries.
Compact ==
    /\ said.main # <<>>
    /\ Len(lines) < MaxLines
    /\ lines' = Append(lines, IF paired THEN [Plain EXCEPT !.boundary = TRUE]
                              ELSE [Plain EXCEPT !.type = "user", !.summary = TRUE])
    /\ tip' = [tip EXCEPT !.main = Fresh]
    /\ said' = [said EXCEPT !.main = IF paired THEN <<>> ELSE <<Fresh>>]
    /\ open' = [open EXCEPT !.main = 0]
    /\ pending' = paired
    /\ compacted' = compacted + 1
    /\ UNCHANGED <<paired, sent, unusable>>

Summarise ==
    /\ pending
    /\ Write("main", [Plain EXCEPT !.type = "user", !.summary = TRUE])
    /\ Says("main")
    /\ pending' = FALSE
    /\ UNCHANGED <<paired, open, sent, compacted, unusable>>

Next ==
    \/ \E c \in Conversation :
        \/ Block(c) \/ Result(c) \/ Hook(c)
        \/ \E usage \in BOOLEAN : Respond(c, usage)
        \/ \E k \in {0, Fresh} : ApiError(c, k)
    \/ \E p \in Range(said.main) : Reprompt(p)
    \/ Prompt \/ Spawn \/ Housekeeping \/ Compact \/ Summarise

Spec == Init /\ [][Next]_transcriptVars

-----------------------------------------------------------------------------
(* The reader.                                                             *)

\* The lines with a uuid; the others are counted and skipped.
readLines == SelectSeq([n \in 1..Len(lines) |-> n], LAMBDA n : lines[n].type # "none")

\* A boundary counts; a summary counts when it follows no boundary.
countCompaction(acc, n) ==
    CASE lines[n].boundary -> [count |-> acc.count + 1, sawBoundary |-> TRUE]
      [] lines[n].summary /\ ~acc.sawBoundary -> [acc EXCEPT !.count = @ + 1]
      [] lines[n].summary /\ acc.sawBoundary -> [acc EXCEPT !.sawBoundary = FALSE]
      [] OTHER -> acc

\* Assistant lines are grouped by request; errors the client wrote are none.
IsRequestLine(n) == lines[n].type = "assistant" /\ lines[n].key # 0 /\ ~lines[n].error

byBlock(S) ==
    SetToSortSeq(S, LAMBDA a, b : \/ lines[a].block < lines[b].block
                                  \/ lines[a].block = lines[b].block /\ a < b)

groupOf(k) == byBlock({n \in Range(readLines) : IsRequestLine(n) /\ lines[n].key = k})

\* The requests in first-seen order.
order ==
    LET firsts == SelectSeq(readLines, LAMBDA n : IsRequestLine(n) /\
                      \A m \in 1..n - 1 : ~(IsRequestLine(m) /\ lines[m].key = lines[n].key))
    IN [i \in 1..Len(firsts) |-> lines[firsts[i]].key]

\* The ancestors of a line, root first.
chainOf(n) ==
    LET walk[m \in 0..n] == IF m = 0 THEN <<>> ELSE Append(walk[lines[m].parent], m)
    IN walk[lines[n].parent]

\* Neighbours in a chain that belong to one message: assistant lines of one
\* response.
sameRun(a, b) ==
    lines[a].type = "assistant" /\ lines[b].type = "assistant" /\ lines[a].key = lines[b].key

\* The runs of a chain, a user's line being one of its own.
runs(chain) ==
    LET starts == {i \in 1..Len(chain) : i = 1 \/ ~sameRun(chain[i - 1], chain[i])}
        endOf(i) == Max({j \in i..Len(chain) :
                            \A h \in i + 1..j : sameRun(chain[h - 1], chain[h])})
        ordered == SetToSortSeq(starts, <)
    IN [r \in 1..Len(ordered) |-> SubSeq(chain, ordered[r], endOf(ordered[r]))]

\* Slip: a response has one message, wherever its lines stand.
memoKeyByRequest(run) ==
    IF lines[run[1]].type = "assistant" THEN <<"request", lines[run[1]].key>>
    ELSE <<"line", run[1]>>

\* Messages are decoded once and kept by the uuid of their first line.
memoKey(run) == <<"line", run[1]>>

\* A message: the lines of its run in the order of their blocks.
decode(run) == byBlock(Range(run))

\* memo, and the append to the context of what it returned.
addMessage(acc, run) ==
    LET k == memoKey(run)
        known == k \in DOMAIN acc.memo
    IN [memo |-> IF known THEN acc.memo
                 ELSE [x \in DOMAIN acc.memo \cup {k} |->
                          IF x = k THEN decode(run) ELSE acc.memo[x]],
        context |-> acc.context \o (IF known THEN acc.memo[k] ELSE decode(run))]

\* One request: its output, its context through the memo, and the lane it is in.
buildRequest(memo, group) ==
    LET first == group[1]
        chain == chainOf(first)
        messages == SelectSeq(runs(chain), LAMBDA run : lines[run[1]].type \in Roles)
        walked == FoldLeft(addMessage, [memo |-> memo, context |-> <<>>], messages)
    IN [request |-> [id |-> lines[first].key, context |-> walked.context,
                     output |-> decode(group)],
        memo |-> walked.memo,
        lane |-> IF messages = <<>> THEN first ELSE messages[1][1],
        continued |-> /\ chain # <<>>
                      /\ lines[chain[1]].boundary \/ lines[chain[1]].summary]

\* Session.Lane, and what the parser does with the lane it finds.
intoLane(lanes, built, agent) ==
    LET at == {i \in 1..Len(lanes) : lanes[i].id = built.lane}
        lane == IF at = {} THEN Len(lanes) + 1 ELSE Min(at)
        found == IF at # {} THEN lanes[lane]
                 ELSE [id |-> built.lane, sidechain |-> agent, continuation |-> FALSE,
                       requests |-> <<>>]
    IN [i \in 1..Max({lane, Len(lanes)}) |->
            IF i # lane THEN lanes[i]
            ELSE [found EXCEPT !.continuation = @ \/ (built.continued /\ ~agent),
                               !.requests = Append(@, built.request)]]

addBuilt(acc, built, agent) ==
    [acc EXCEPT !.memo = built.memo, !.lanes = intoLane(@, built, agent)]

\* One request is decoded and put into its lane; one without usage is skipped.
addGroup(acc, group) ==
    IF ~lines[group[1]].usage THEN [acc EXCEPT !.skipped = @ + 1]
    ELSE addBuilt(acc, buildRequest(acc.memo, group), lines[group[1]].agent)

ParseClaudeCode ==
    LET walked == FoldLeft(LAMBDA acc, k : addGroup(acc, groupOf(k)),
                      [memo |-> <<>>, lanes |-> <<>>,
                       skipped |-> Len(lines) - Len(readLines)], order)
        counted == FoldLeft(countCompaction, [count |-> 0, sawBoundary |-> FALSE], readLines)
    IN walked @@ [compactions |-> counted.count]

-----------------------------------------------------------------------------
TypeOK ==
    /\ Len(lines) <= MaxLines
    /\ paired \in BOOLEAN /\ pending \in BOOLEAN
    /\ tip \in [Conversation -> 0..Len(lines)]
    /\ open \in [Conversation -> {0} \cup DOMAIN sent]
    /\ \A c \in Conversation : said[c] \in Seq(1..Len(lines))
    /\ compacted \in 0..MaxLines /\ unusable \in 0..MaxLines

\* The requests of the session, by lane and position.
Entries(s) ==
    {<<i, j>> \in (1..Len(s.lanes)) \X (1..MaxLines) : j <= Len(s.lanes[i].requests)}

\* A conversation with a result that does not follow its own call.
SideBySide(conv) ==
    \E i \in 2..Len(conv) : lines[conv[i]].answers \notin {0, conv[i - 1]}

\* A session s read from the file is what the client did.
Describes(s) ==
    LET at(e) == s.lanes[e[1]].requests[e[2]]
        of(e) == sent[at(e).id]
    IN /\ {at(e).id : e \in Entries(s)} = {k \in DOMAIN sent : sent[k].usage}
       /\ \A e, f \in Entries(s) : at(e).id = at(f).id => e = f
       /\ \A e \in Entries(s) :
            /\ at(e).context = SelectSeq(of(e).said, LAMBDA n : n \in Range(at(e).context))
            /\ at(e).context = of(e).said \/ SideBySide(of(e).said)
            /\ Range(at(e).output) = Written(at(e).id)
            /\ s.lanes[e[1]].sidechain = of(e).agent
            /\ s.lanes[e[1]].continuation = of(e).after
       /\ \A e, f \in Entries(s) : (e[1] = f[1]) <=> (of(e).said[1] = of(f).said[1])
       /\ s.compactions = compacted
       /\ s.skipped = unusable

\* Whenever the transcript is read, and however the lines of two conversations,
\* of a response's blocks and of tool results interleave in it: every response
\* the provider billed is one request of the session; its context is nothing the
\* client did not send, in the order of the conversation, and all of it unless
\* results of parallel calls were written side by side; its output is what was
\* written of it; two requests share a lane exactly when they belong to one
\* conversation since its last compaction, and the lane says whether it is a
\* sub-agent's or the main conversation continued; compactions and unusable
\* lines are each counted once.
SessionIsTrue == Describes(ParseClaudeCode)

\* types.go: "Context is every message the request carried as input, oldest
\* first."  The results of all parallel calls are carried; those that hang
\* beside the chain are not found by walking it.
ContextIsWhole ==
    \A i \in 1..Len(ParseClaudeCode.lanes) :
        \A r \in Range(ParseClaudeCode.lanes[i].requests) : r.context = sent[r.id].said

=============================================================================
