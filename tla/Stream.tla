--------------------------------- MODULE Stream --------------------------------
(***************************************************************************)
(* StreamRehydrator (internal/masking/stream.go): putting secrets back     *)
(* into a server-sent event stream whose deltas may cut a placeholder      *)
(* anywhere.  A text is a sequence over a small alphabet in which a        *)
(* placeholder is Prefix and a code of digits; like REPLAY_SECRET_, Prefix *)
(* begins again inside itself and never at its end.                        *)
(* An event is abstracted to the text it carries, so what the client has   *)
(* of a block is the text of the deltas forwarded so far; the vault and    *)
(* the scopes do not change while a stream lasts.                          *)
(*                                                                         *)
(* got and excused are history: what the provider sent, and the blocks the *)
(* code stopped inspecting.                                                *)
(***************************************************************************)
EXTENDS Integers, FiniteSets, Sequences, SequencesExt

CONSTANTS
    Block, Index,
    Kind,           \* "text" or "tool_use", for each block
    Texts,          \* what the provider may send in each block
    Prefix, Digit,
    CodeLength,     \* placeholderHex
    Secret,         \* the secret behind each code the vault knows
    MaxHeld         \* MaxHeldToolInputBytes, in symbols

NoBlock == "none"
Code == [1..CodeLength -> Digit]
PlaceholderLength == Len(Prefix) + CodeLength
Placeholder(c) == Prefix \o c

\* A prefix may start inside a prefix, and none ends one: matches are disjoint.
StreamAssumption ==
    /\ NoBlock \notin Block /\ MaxHeld \in Nat
    /\ DOMAIN Secret \subseteq Code
    /\ \A k \in 1..(Len(Prefix) - 1) :
          ~IsPrefix(SubSeq(Prefix, Len(Prefix) - k + 1, Len(Prefix)), Prefix)

VARIABLES
    left,           \* what the provider has still to send of each block
    got, out,       \* text received from the provider, forwarded to the client
    started, stopped,
    blocks,         \* s.blocks: the open block at each index
    heldText, tail, \* a text delta held back, and how much of it is in doubt
    input,          \* text of a tool block's held deltas
    gaveUp,         \* tool blocks no longer inspected
    passthrough,
    rep,            \* placeholders restored and denied
    excused

vars == <<left, got, out, started, stopped, blocks, heldText, tail, input,
          gaveUp, passthrough, rep, excused>>

Nothing == [b \in Block |-> <<>>]

Init ==
    /\ left \in {f \in [Block -> UNION {Texts[b] : b \in Block}] :
                    \A b \in Block : f[b] \in Texts[b]}
    /\ got = Nothing /\ out = Nothing
    /\ started = {} /\ stopped = {} /\ gaveUp = {} /\ excused = {}
    /\ blocks = [i \in Index |-> NoBlock]
    /\ heldText = Nothing /\ tail = [b \in Block |-> 0] /\ input = Nothing
    /\ passthrough = FALSE
    /\ rep = [restored |-> 0, denied |-> 0]

-----------------------------------------------------------------------------
(* The text functions. *)

LastOf(n, t) == SubSeq(t, Len(t) - n + 1, Len(t))
AllBut(n, t) == SubSeq(t, 1, Len(t) - n)

\* placeholderRE.FindAllIndex: where the placeholders of a text begin.
Matches(t) ==
    {i \in 1..(Len(t) - PlaceholderLength + 1) :
        \E c \in Code : SubSeq(t, i, i + PlaceholderLength - 1) = Placeholder(c)}

CodeAt(t, i) == SubSeq(t, i + Len(Prefix), i + PlaceholderLength - 1)
Restored(t) == {i \in Matches(t) : CodeAt(t, i) \in DOMAIN Secret}

\* Every placeholder the vault knows becomes its secret.
restore(t) ==
    LET from[i \in 1..(Len(t) + 1)] ==
            IF i > Len(t) THEN <<>>
            ELSE IF i \in Restored(t)
            THEN <<Secret[CodeAt(t, i)]>> \o from[i + PlaceholderLength]
            ELSE <<t[i]>> \o from[i + 1]
    IN from[1]

Counted(t) ==
    [restored |-> rep.restored + Cardinality(Restored(t)),
     denied |-> rep.denied + Cardinality(Matches(t) \ Restored(t))]

isPlaceholderPrefix(s) == \E c \in Code : IsStrictPrefix(s, Placeholder(c))

\* Slip: only a cut inside the prefix is recognised.
partialOfPrefix(t) ==
    LET in == {k \in 1..Min({Len(t), Len(Prefix)}) : IsPrefix(LastOf(k, t), Prefix)}
    IN Max(in \cup {0})

partialPlaceholderSuffix(t) ==
    LET in == {k \in 1..Min({Len(t), PlaceholderLength - 1}) :
                  isPlaceholderPrefix(LastOf(k, t))}
    IN Max(in \cup {0})

-----------------------------------------------------------------------------
(* The events of one stream.  Take is the provider sending n symbols. *)

Delta(b, n) == SubSeq(left[b], 1, n)

Take(b, n) ==
    /\ n <= Len(left[b])
    /\ left' = [left EXCEPT ![b] = SubSeq(@, n + 1, Len(@))]
    /\ got' = [got EXCEPT ![b] = @ \o Delta(b, n)]

Open(b) == \E i \in Index : blocks[i] = b

\* flushCarry and releaseHeld: what is held for these blocks goes out as it is.
Release(bs) ==
    /\ out' = [b \in Block |-> IF b \in bs THEN out[b] \o heldText[b] \o input[b] ELSE out[b]]
    /\ heldText' = [b \in Block |-> IF b \in bs THEN <<>> ELSE heldText[b]]
    /\ tail' = [b \in Block |-> IF b \in bs THEN 0 ELSE tail[b]]
    /\ input' = [b \in Block |-> IF b \in bs THEN <<>> ELSE input[b]]

\* content_block_start, at an index that may still be in use.
blockStart(b, i) ==
    /\ ~passthrough /\ b \notin started
    /\ started' = started \cup {b}
    /\ blocks' = [blocks EXCEPT ![i] = b]
    /\ Release({blocks[i]} \cap Block)
    /\ excused' = excused \cup {c \in {blocks[i]} \cap Block : Kind[c] = "tool_use"}
    /\ UNCHANGED <<left, got, stopped, gaveUp, passthrough, rep>>

\* A held delta is released first: cut before its tail when a placeholder, or
\* the beginning of one, reaches into this delta, and unchanged otherwise.
textDelta(b, n) ==
    LET d == Delta(b, n)
        carry == LastOf(tail[b], heldText[b])
        combined == carry \o d
        crossing == /\ heldText[b] # <<>>
                    /\ \/ \E i \in Matches(combined) : i <= Len(carry)
                       \/ partialPlaceholderSuffix(combined) > Len(d)
        inner == IF crossing THEN combined ELSE d
        doubt == partialPlaceholderSuffix(inner)
        event == restore(AllBut(doubt, inner)) \o LastOf(doubt, inner)
        front == IF crossing THEN AllBut(tail[b], heldText[b]) ELSE heldText[b]
    IN /\ ~passthrough /\ Kind[b] = "text" /\ Open(b) /\ Take(b, n)
       /\ rep' = Counted(AllBut(doubt, inner))
       /\ heldText' = [heldText EXCEPT ![b] = IF doubt > 0 THEN event ELSE <<>>]
       /\ tail' = [tail EXCEPT ![b] = doubt]
       /\ out' = [out EXCEPT ![b] = @ \o front \o (IF doubt > 0 THEN <<>> ELSE event)]
       /\ UNCHANGED <<started, stopped, blocks, input, gaveUp, passthrough, excused>>

\* A text delta with no text to be found: release what is held, in front of it.
textDeltaUnread(b) ==
    /\ ~passthrough /\ Kind[b] = "text" /\ Open(b)
    /\ Release({b})
    /\ excused' = excused \cup {b}
    /\ UNCHANGED <<left, got, started, stopped, blocks, gaveUp, passthrough, rep>>

\* A tool block's deltas wait for its end.
holdToolDelta(b, n) ==
    /\ ~passthrough /\ Kind[b] = "tool_use" /\ Open(b) /\ b \notin gaveUp
    /\ Take(b, n) /\ Len(input[b]) + n <= MaxHeld
    /\ input' = [input EXCEPT ![b] = @ \o Delta(b, n)]
    /\ UNCHANGED <<out, started, stopped, blocks, heldText, tail, gaveUp, passthrough, rep, excused>>

\* Past the limit they are released and the block is no longer inspected.
toolTooLarge(b, n) ==
    LET all == input[b] \o Delta(b, n)
    IN /\ ~passthrough /\ Kind[b] = "tool_use" /\ Open(b) /\ b \notin gaveUp
       /\ Take(b, n) /\ Len(all) > MaxHeld
       /\ out' = [out EXCEPT ![b] = @ \o all] /\ input' = [input EXCEPT ![b] = <<>>]
       /\ rep' = [rep EXCEPT !.denied = @ + Cardinality(Matches(all))]
       /\ gaveUp' = gaveUp \cup {b} /\ excused' = excused \cup {b}
       /\ UNCHANGED <<started, stopped, blocks, heldText, tail, passthrough>>

\* Deltas nobody inspects go straight through.
rawDelta(b, n) ==
    /\ passthrough \/ (b \in gaveUp /\ Open(b))
    /\ b \in started \ stopped /\ Take(b, n)
    /\ out' = [out EXCEPT ![b] = @ \o Delta(b, n)]
    /\ UNCHANGED <<started, stopped, blocks, heldText, tail, input, gaveUp, passthrough, rep, excused>>

Close(b) ==
    /\ stopped' = stopped \cup {b}
    /\ blocks' = [i \in Index |-> IF blocks[i] = b THEN NoBlock ELSE blocks[i]]

\* Slip: the stop event overtakes the held delta.
textStopForgets(b) ==
    /\ ~passthrough /\ Kind[b] = "text" /\ Open(b) /\ left[b] = <<>>
    /\ Close(b) /\ Release({})
    /\ UNCHANGED <<left, got, started, gaveUp, passthrough, rep, excused>>

\* content_block_stop of a text block.
textStop(b) ==
    /\ ~passthrough /\ Kind[b] = "text" /\ Open(b) /\ left[b] = <<>>
    /\ Close(b) /\ Release({b})
    /\ UNCHANGED <<left, got, started, gaveUp, passthrough, rep, excused>>

\* releaseTool, where the scope of the destination admits the secrets, and
\* where it does not or the input does not parse.
toolStop(b, admitted) ==
    LET all == input[b]
    IN /\ ~passthrough /\ Kind[b] = "tool_use" /\ Open(b) /\ left[b] = <<>>
       /\ Close(b)
       /\ out' = [out EXCEPT ![b] = @ \o (IF admitted THEN restore(all) ELSE all)]
       /\ input' = [input EXCEPT ![b] = <<>>]
       /\ rep' = IF admitted THEN Counted(all)
                 ELSE [rep EXCEPT !.denied = @ + Cardinality(Matches(all))]
       /\ excused' = IF admitted THEN excused ELSE excused \cup {b}
       /\ UNCHANGED <<left, got, started, heldText, tail, gaveUp, passthrough>>

\* An event too long to hold, or the end of the stream (Flush): everything
\* held goes out and the rest of the stream is not inspected.
giveUp ==
    /\ ~passthrough
    /\ Release(Block) /\ passthrough' = TRUE
    /\ excused' = excused \cup (started \ stopped)
    /\ UNCHANGED <<left, got, started, stopped, blocks, gaveUp, rep>>

Next ==
    \/ giveUp
    \/ \E b \in Block :
          \/ \E i \in Index : blockStart(b, i)
          \/ \E n \in 0..Len(left[b]) :
                textDelta(b, n) \/ holdToolDelta(b, n) \/ toolTooLarge(b, n) \/ rawDelta(b, n)
          \/ textDeltaUnread(b) \/ textStop(b)
          \/ \E admitted \in BOOLEAN : toolStop(b, admitted)

Spec == Init /\ [][Next]_vars

-----------------------------------------------------------------------------
Secrets == Range(Secret)

(* The stream's state is well typed; what is in doubt is a proper part of  *)
(* the held delta's end and shorter than a placeholder.                    *)
TypeOK ==
    /\ started \subseteq Block /\ stopped \subseteq started
    /\ gaveUp \subseteq started /\ excused \subseteq started
    /\ blocks \in [Index -> Block \cup {NoBlock}]
    /\ passthrough \in BOOLEAN
    /\ rep \in [restored : Nat, denied : Nat]
    /\ \A b \in Block :
          /\ tail[b] \in 0..(PlaceholderLength - 1) /\ tail[b] <= Len(heldText[b])
          /\ (tail[b] = 0) = (heldText[b] = <<>>)

Masked(t) ==
    FlattenSeq([i \in DOMAIN t |->
        IF t[i] \in Secrets THEN Placeholder(CHOOSE c \in DOMAIN Secret : Secret[c] = t[i])
        ELSE <<t[i]>>])

(* Whatever the cuts, the interleaving of blocks, a reused index or a      *)
(* stream given up on: what the client has of a block, then what is held   *)
(* of it, is what the provider sent, in order, but for the secrets put     *)
(* back; and nothing is held once the client has the block's stop event.   *)
NothingLost ==
    TypeOK /\ \A b \in Block :
        /\ Masked(out[b] \o heldText[b]) \o input[b] = got[b]
        /\ b \in stopped => heldText[b] = <<>> /\ input[b] = <<>>

(* No placeholder the vault knows reaches the client across any cut, in a  *)
(* block the code did not stop inspecting.                                 *)
NoneSlipsThrough ==
    \A b \in Block \ excused : Restored(out[b]) = {}

(* Each placeholder is counted once, however many deltas carried it and    *)
(* however often its tail was looked at (MK-6 reports these counts).       *)
ReportCountsOnce ==
    LET Count(b, S(_)) == Cardinality(S(out[b] \o heldText[b]))
        Here(t) == {i \in DOMAIN t : t[i] \in Secrets}
        Total(S(_)) == FoldSet(LAMBDA b, n : n + Count(b, S), 0, Block)
    IN excused = {} => /\ rep.restored = Total(Here)
                       /\ rep.denied = Total(Matches)

=============================================================================
