--------------------------------- MODULE Tap ---------------------------------
(* The response tap (internal/proxy/tap.go) and the three stream parsers      *)
(* behind it (internal/ledger/response.go, openai_stream.go,                  *)
(* responses_stream.go): what one response is measured as, however its bytes  *)
(* are cut into writes and wherever it ends.                                  *)
(*                                                                            *)
(* A body is a sequence of lines with a size in bytes, its line break         *)
(* included; a body that is no event stream is one document.  What a line     *)
(* carries is abstracted to the usage in it.  A write is a number of bytes,   *)
(* so a line is parsed when its last byte has come.                           *)
EXTENDS Integers, Sequences, SequencesExt

CONSTANTS
    Bodies,         \* the bodies a provider may send to each family
    MaxChunk,       \* the reverse proxy copies through a buffer of this size
    MaxPending,     \* maxPendingLine
    MaxBody         \* MaxResponseBytes

VARIABLES
    family,         \* "messages", "openai" or "responses": known from the route
    body,           \* the lines of the body, decoded
    eventStream, gz,
    status,         \* 0 until the header was written
    sent,           \* bytes of the body, as encoded, passed on to the client
    buffered, dropped,  \* t.buffer and t.dropped
    parsed,         \* lines the incremental parser has seen
    pending, lost,  \* its pending bytes and its own dropped flag
    usage,          \* what it has of the usage
    ended,          \* "no", "whole" or "early"
    spent, noUsage, unparsed    \* what the bookkeeping made of it

vars == <<family, body, eventStream, gz, status, sent, buffered, dropped, parsed, pending,
          lost, usage, ended, spent, noUsage, unparsed>>

Absent == -1
\* What a line says of usage: nothing, or how much input and output; only the
\* beginning of a message replaces what was there.
NoFigure == [input |-> Absent, output |-> Absent]
Figure(i, o) == [input |-> i, output |-> o]

Sum(lines) == FoldLeft(LAMBDA n, l : n + l.size, 0, lines)
Size == Sum(body)

\* What travels: a compressed body is half as long.
Wire == IF gz THEN (Size + 1) \div 2 ELSE Size

Init ==
    /\ family \in DOMAIN Bodies /\ body \in Bodies[family]
    /\ eventStream = (body[1].kind \notin {"document", "other", "garbage"})
    /\ gz \in BOOLEAN
    /\ status = 0 /\ sent = 0 /\ buffered = 0 /\ dropped = FALSE
    /\ parsed = 0 /\ pending = 0 /\ lost = FALSE /\ usage = NoFigure
    /\ ended = "no"
    /\ spent = Absent /\ noUsage = 0 /\ unparsed = 0

-----------------------------------------------------------------------------
(* The parsers.                                                               *)

\* Slip: a later usage replaces the earlier one.
mergeReplaces(old, new) == new

\* merge: every non-zero field of a later usage.
merge(old, new) ==
    LET take(a, b) == IF b > 0 \/ a = Absent THEN b ELSE a
    IN  Figure(take(old.input, new.input), take(old.output, new.output))

\* StreamParser.line, OpenAIStreamParser.line, ResponsesStreamParser.line.
line(u, l) ==
    IF l.usage = NoFigure THEN u
    ELSE IF family = "messages" /\ l.kind = "delta" THEN merge(u, l.usage)
    ELSE l.usage

\* The whole lines among the first n bytes of a body.
Whole(n) ==
    {k \in 0..Len(body) : Sum(SubSeq(body, 1, k)) <= n}

Lines(n) == CHOOSE k \in Whole(n) : \A j \in Whole(n) : j <= k

\* Only two of the parsers give a line up that grows too long, and they look at
\* what is pending before they take whole lines out of it.
Bounded == family \in {"messages", "responses"}
TooLong(n) == Bounded /\ pending + n > MaxPending

\* Result: a usage that measured nothing is none, on one family.
Measured(u) ==
    IF family = "responses" /\ u = Figure(0, 0) THEN NoFigure ELSE u

\* Two of the parsers know their own document from another.
Legible(l) == l.kind # "garbage" /\ (family = "openai" \/ l.kind # "other")

\* ParseResponse, ParseOpenAIResponse, ParseResponsesResponse of a document.
Document(l) ==
    IF family = "messages" THEN l.usage
    ELSE IF l.usage = Figure(0, 0) THEN NoFigure ELSE l.usage

-----------------------------------------------------------------------------
(* The tap.                                                                   *)

Incremental == eventStream /\ ~ gz

\* WriteHeader: the parser is chosen by the route and the content type.
WriteHeader(code) ==
    /\ status = 0 /\ ended = "no"
    /\ status' = code
    /\ UNCHANGED <<family, body, eventStream, gz, sent, buffered, dropped, parsed, pending,
                   lost, usage, ended, spent, noUsage, unparsed>>

\* A write to the incremental parser.
Feed(n) ==
    IF lost THEN UNCHANGED <<parsed, pending, lost, usage>>
    ELSE IF TooLong(n)
    THEN lost' = TRUE /\ pending' = 0 /\ UNCHANGED <<parsed, usage>>
    ELSE LET k == Lines(sent + n)
         IN  /\ parsed' = k
             /\ usage' = FoldLeft(line, usage, SubSeq(body, parsed + 1, k))
             /\ pending' = sent + n - Sum(SubSeq(body, 1, k))
             /\ UNCHANGED lost

\* Write: the client first, then the parser or the buffer.
Write(n) ==
    /\ status # 0 /\ ended = "no" /\ sent + n <= Wire
    /\ sent' = sent + n
    /\ \/ Incremental /\ Feed(n) /\ UNCHANGED <<buffered, dropped>>
       \/ /\ ~ Incremental
          /\ IF buffered + n <= MaxBody
             THEN buffered' = buffered + n /\ UNCHANGED dropped
             ELSE dropped' = TRUE /\ UNCHANGED buffered
          /\ UNCHANGED <<parsed, pending, lost, usage>>
    /\ UNCHANGED <<family, body, eventStream, gz, status, ended, spent, noUsage, unparsed>>

Unread == [usage |-> NoFigure, unparsed |-> TRUE]
Parsed(u) == [usage |-> u, unparsed |-> FALSE]

\* A decoded event stream is given to a parser in one write, as far as the
\* limit on decoded bytes lets it through.
DecodedStream ==
    LET n == IF Size <= MaxBody THEN Size ELSE MaxBody
    IN  IF Bounded /\ n > MaxPending THEN Parsed(NoFigure)
        ELSE Parsed(Measured(FoldLeft(line, NoFigure, SubSeq(body, 1, Lines(n)))))

\* responseTap.result.
result ==
    IF Incremental THEN Parsed(Measured(usage))
    ELSE IF dropped \/ (gz /\ sent < Wire) THEN Unread
    ELSE IF eventStream THEN DecodedStream
    ELSE IF sent < Wire \/ Size > MaxBody \/ ~ Legible(body[1]) THEN Unread
    ELSE Parsed(Document(body[1]))

\* The deferred bookkeeping of Server.handle, when the response is over: all of
\* it came, the provider's connection broke, or the client went away.
Finish(how) ==
    /\ status # 0 /\ ended = "no"
    /\ how = "whole" => sent = Wire
    /\ ended' = how
    /\ IF result.usage # NoFigure
       THEN /\ spent' = result.usage.input + result.usage.output
            /\ UNCHANGED <<noUsage, unparsed>>
       ELSE /\ unparsed' = unparsed + (IF status < 300 /\ result.unparsed THEN 1 ELSE 0)
            /\ noUsage' = noUsage + (IF status < 300 /\ ~ result.unparsed THEN 1 ELSE 0)
            /\ UNCHANGED spent
    /\ UNCHANGED <<family, body, eventStream, gz, status, sent, buffered, dropped, parsed,
                   pending, lost, usage>>

Next ==
    \/ \E code \in {200, 529} : WriteHeader(code)
    \/ \E n \in 1..MaxChunk : Write(n)
    \/ \E how \in {"whole", "early"} : Finish(how)

Spec == Init /\ [][Next]_vars

-----------------------------------------------------------------------------
(* Properties.                                                                *)

TypeOK ==
    /\ sent \in 0..Wire /\ buffered \in 0..MaxBody /\ parsed \in 0..Len(body)
    /\ pending \in Nat /\ (Bounded => pending <= MaxPending)
    /\ \A b \in {dropped, lost, gz, eventStream} : b \in BOOLEAN
    /\ ended \in {"no", "whole", "early"} /\ spent \in Int

\* The usage of some lines by definition: of each figure the last that was not
\* zero, counting from the last line that replaces all.
Reference(lines) ==
    LET says == {k \in DOMAIN lines : lines[k].usage # NoFigure}
        fresh == {k \in says : family # "messages" \/ lines[k].kind # "delta"}
        base == IF fresh = {} THEN 1 ELSE CHOOSE k \in fresh : \A j \in fresh : j <= k
        since == {k \in says : k >= base}
        last(g(_)) ==
            LET some == {k \in since : g(lines[k].usage) > 0}
            IN  IF some = {} THEN 0
                ELSE g(lines[CHOOSE k \in some : \A j \in some : j <= k].usage)
    IN  IF says = {} THEN NoFigure
        ELSE Figure(last(LAMBDA u : u.input), last(LAMBDA u : u.output))

\* A response within the limits: no line that could fill what a parser holds,
\* nothing that is buffered larger than the buffer, and no decoded stream too
\* large for the parser that takes it in one piece.
Within ==
    /\ Incremental /\ Bounded => \A k \in DOMAIN body : body[k].size + MaxChunk <= MaxPending + 1
    /\ ~ Incremental => Size <= MaxBody
    /\ ~ Incremental /\ eventStream /\ Bounded => Size <= MaxPending

\* What came whole of it: of a stream the lines that did, of a document or a
\* compressed body all or nothing.
Came ==
    IF Incremental THEN SubSeq(body, 1, Lines(sent))
    ELSE IF sent = Wire THEN body ELSE <<>>

\* A response within the limits is measured as the provider sent it, however it
\* was cut: its spend is the usage of what came whole of it, a usage of nothing
\* counts as none where the code says so, and a successful response without a
\* figure is counted exactly once, as a body nobody could read or one that
\* said nothing (QT-7a, QT-7c).
MeasuredAsSent ==
    ended # "no" =>
        LET figure == Reference(Came)
            nothing == figure = NoFigure
            zeroIsNone == family = "responses" \/ (family = "openai" /\ ~ eventStream)
        IN  /\ Within /\ (eventStream \/ Legible(body[1])) =>
                  spent = IF nothing \/ (zeroIsNone /\ figure = Figure(0, 0)) THEN Absent
                          ELSE figure.input + figure.output
            /\ status < 300 => noUsage + unparsed = (IF spent = Absent THEN 1 ELSE 0)
            /\ status >= 300 => noUsage + unparsed = 0
            /\ unparsed = 1 <=> /\ spent = Absent /\ status < 300 /\ ~ Incremental
                                /\ \/ dropped \/ sent < Wire
                                   \/ ~ eventStream /\ (Size > MaxBody \/ ~ Legible(body[1]))

\* No turn is recorded as free (openai_stream.go: "zero would tell the spend cap
\* the request was free").
NeverFree == spent # 0

=============================================================================
