---------------------------- MODULE MCRequestPath ----------------------------
(* What happens to one request besides being forwarded: the guards judge it,  *)
(* the vault masks it, it is observed in its lane, its response is measured   *)
(* by the tap and its placeholders are turned back in the stream; and the     *)
(* handler that calls them in sequence, where they answer in any way they     *)
(* may.  The six share no state (a stream's lookup is one locked read of the  *)
(* vault, a guard reads figures that bookkeeping wrote), so `which` says      *)
(* which of them this behaviour is about, and the others keep an initial      *)
(* state.                                                                     *)
(*                                                                            *)
(* The stream has one text block and one tool block.  The text block's texts  *)
(* are built from the fragments that make a cut hard: a placeholder the vault *)
(* knows, one it does not, the beginning of one, and a prefix broken off      *)
(* where it begins again.                                                     *)
EXTENDS Vault, Lanes, Guards, Passage, FiniteSets, Sequences, SequencesExt

VARIABLES which

-----------------------------------------------------------------------------
CONSTANTS b1, b2, Block, Index, Kind, Texts, Prefix, Digit, CodeLength, Behind, MaxHeld

VARIABLES left, got, out, started, stopped, blocks, heldText, tail, input, gaveUp,
          passthrough, rep, excused

stream == <<left, got, out, started, stopped, blocks, heldText, tail, input, gaveUp,
            passthrough, rep, excused>>

Rehydrate == INSTANCE Stream WITH Secret <- Behind

ASSUME StreamAssumption == Rehydrate!StreamAssumption

MCPrefix == <<"r", "r", "t">>
MCBehind == [c \in {<<"0", "0">>} |-> "secret"]
MCKind == b1 :> "text" @@ b2 :> "tool_use"

Fragments ==
    {<<"r", "r", "t", "0", "0">>, <<"r", "r", "t", "0", "1">>, <<"r", "r", "t", "0">>,
     <<"r">>}

MCTexts ==
    b1 :> {FlattenSeq(f) : f \in BoundedSeq(Fragments, 2)}
    @@ b2 :> {<<"r", "r", "t", "0", "0", "r">>}

-----------------------------------------------------------------------------
(* A line of each kind a provider sends, of sizes that fill a parser's limit  *)
(* exactly, exceed it, and share a write with another line.                   *)
CONSTANTS Bodies, MaxChunk, MaxPending, MaxBody

VARIABLES family, body, eventStream, gz, status, sent, buffered, dropped, parsed, pending,
          lost, usage, ended, spent, noUsage, unparsed

response == <<family, body, eventStream, gz, status, sent, buffered, dropped, parsed,
              pending, lost, usage, ended, spent, noUsage, unparsed>>

Measure == INSTANCE Tap

says(kind, size, i, o) ==
    [kind |-> kind, size |-> size, usage |-> [input |-> i, output |-> o]]
text(kind, size) == says(kind, size, -1, -1)

LineOf ==
    "messages" :> {says("start", 3, 5, 1), text("block", 1), says("delta", 2, 0, 7),
                   says("delta", 4, 6, 0)}
    @@ "openai" :> {text("choice", 5), says("usage", 2, 5, 7), says("usage", 1, 0, 0)}
    @@ "responses" :> {text("event", 3), says("completed", 2, 5, 7), says("completed", 1, 0, 0)}

Documents ==
    {<<says("document", 3, 5, 7)>>, <<says("document", 2, 0, 0)>>, <<text("other", 2)>>,
     <<text("garbage", 9)>>}

MCBodies == [f \in DOMAIN LineOf |-> Documents \cup (BoundedSeq(LineOf[f], 3) \ {<<>>})]

-----------------------------------------------------------------------------
(* A prefix whose whole band is over the ceiling, one whose band straddles    *)
(* it; a run of calls with a message between, and one that is over.           *)
MCTokens == "straddles" :> 24 @@ "over" :> 40
MCConversations == {<<>>, <<"c", "d", "no call", "d">>, <<"d", "d", "c">>}

-----------------------------------------------------------------------------
(* Three requests over two sessions, with a table that holds one.             *)
CONSTANT Turns      \* the requests of Lanes, in the order of their arrival

MCTurns == <<"q1", "q2", "q3">>

\* Requests, sessions and a session's lanes are interchangeable: requests arrive
\* in the order of Turns, the first of a session is of lane "main", the first two
\* of one session are in one lane, and two requests are, or there is nothing to
\* tell apart.
Canonical ==
    /\ sess[Turns[1]] = "s1"
    /\ \A i \in DOMAIN Turns :
        (\A j \in 1..(i - 1) : sess[Turns[j]] # sess[Turns[i]])
            => agent[Turns[i]] = "main"
    /\ sess[Turns[2]] = sess[Turns[1]] => agent[Turns[2]] = "main"
    /\ \E q, r \in Req : q # r /\ SameLane(q, r)

InTurn ==
    \A i \in DOMAIN Turns :
        pc[Turns[i]] = "new" /\ pc'[Turns[i]] # "new" =>
            \A j \in 1..(i - 1) : pc[Turns[j]] # "new"

-----------------------------------------------------------------------------
(* A request of each kind that the handler treats in a way of its own, beside *)
(* one that is rewritten on its way.                                          *)
CONSTANTS c1, c2

plainAsk ==
    [origin |-> "none", host |-> "local", socket |-> FALSE, token |-> "right",
     tenant |-> "absent", path |-> messagesPath, post |-> TRUE, session |-> TRUE,
     named |-> TRUE, kind |-> "request", has |-> {}, known |-> TRUE]
rewritten == [plainAsk EXCEPT !.has = {"secret", "version"}]
streamed ==
    [plainAsk EXCEPT !.path = chatCompletionsPath, !.has = {"secret", "stream"},
                     !.session = FALSE, !.tenant = "legal"]

MCAsks ==
    {rewritten, streamed,
     [plainAsk EXCEPT !.kind = "junk", !.has = {"secret"}, !.session = FALSE],
     [plainAsk EXCEPT !.kind = "large"],
     [plainAsk EXCEPT !.tenant = "reserved", !.kind = "broken"],
     [plainAsk EXCEPT !.path = responsesPath, !.kind = "odd", !.has = {"secret"},
                      !.known = FALSE],
     [plainAsk EXCEPT !.path = "/v1/other", !.has = {"secret", "version"}, !.socket = TRUE,
                      !.host = "foreign"],
     [plainAsk EXCEPT !.token = "wrong", !.kind = "empty"]}

MCFlags ==
    {[mask |-> TRUE, freeze |-> TRUE, policy |-> TRUE, token |-> n, noPolicy |-> n]
        : n \in BOOLEAN}

\* One of the two calls is of every kind; the configuration that rewrites nothing
\* is met by the requests there is most to rewrite of.
Paired ==
    /\ ask[c2] = streamed /\ ask[c1] # streamed
    /\ cfg.NoPolicy => ask[c1] = rewritten

-----------------------------------------------------------------------------
PathInit ==
    /\ which \in {"vault", "stream", "response", "guards", "lanes", "passage"}
    /\ Init /\ (which # "vault" => key = NoKey)
    /\ Rehydrate!Init
    /\ which # "stream" => \A b \in Block : left[b] = CHOOSE t \in Texts[b] : TRUE
    /\ Measure!Init
    /\ which # "response" =>
          /\ family = "messages" /\ ~ gz
          /\ body = CHOOSE d \in Documents : TRUE
    /\ GuardsInit
    /\ LanesInit /\ Canonical
    /\ which # "lanes" => agent = [r \in Req |-> "main"]
                          /\ sess = [r \in Req |-> "s1"]
    /\ PassageInit /\ Paired
    /\ which # "passage" => ask[c1] = rewritten /\ cfg.NoPolicy

PathNext ==
    \/ /\ which = "vault" /\ Next
       /\ UNCHANGED <<which, stream, response, guardsVars, lanesVars, passageVars>>
    \/ /\ which = "stream" /\ Rehydrate!Next
       /\ UNCHANGED <<which, vars, response, guardsVars, lanesVars, passageVars>>
    \/ /\ which = "response" /\ Measure!Next
       /\ UNCHANGED <<which, vars, stream, guardsVars, lanesVars, passageVars>>
    \/ /\ which = "guards" /\ GuardsNext
       /\ UNCHANGED <<which, vars, stream, response, lanesVars, passageVars>>
    \/ /\ which = "lanes" /\ LanesNext /\ InTurn
       /\ UNCHANGED <<which, vars, stream, response, guardsVars, passageVars>>
    \/ /\ which = "passage" /\ PassageNext
       /\ UNCHANGED <<which, vars, stream, response, guardsVars, lanesVars>>

PathSpec ==
    PathInit
    /\ [][PathNext]_<<which, vars, stream, response, guardsVars, lanesVars, passageVars>>

\* Nothing orders the clients of the guards.
PathSymmetry == Permutations(Client)

-----------------------------------------------------------------------------
\* A response on its way through, however its bytes were cut and wherever it
\* ended: the client has the text it was sent but for what is held back
\* (Stream.NothingLost), every placeholder of an inspected block that may be
\* restored is, and counted once (Stream.NoneSlipsThrough, ReportCountsOnce),
\* and its spend is what the provider sent (Tap.MeasuredAsSent).
ResponseIsFaithful ==
    /\ which = "stream" => /\ Rehydrate!TypeOK /\ Rehydrate!NothingLost
                           /\ Rehydrate!NoneSlipsThrough /\ Rehydrate!ReportCountsOnce
    /\ which = "response" => Measure!TypeOK /\ Measure!MeasuredAsSent

=============================================================================
