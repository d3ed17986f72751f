------------------------------- MODULE Masking -------------------------------
(***************************************************************************)
(* Secrets on their way out and back (internal/masking: patterns, entropy, *)
(* mask, scope, rehydrate; internal/proxy/masking.go).  A conversation     *)
(* goes through the proxy: the client sends its whole history with every   *)
(* request, the masker replaces what it finds, the provider answers with   *)
(* placeholders it was shown or never was, the rehydrator puts values back *)
(* where a scope lets it, and what the client then has is history of the   *)
(* next request.  A streamed answer is the subject of Stream, the file     *)
(* below the vault that of Vault; here a store fails or it does not.       *)
(*                                                                         *)
(* A literal is a sequence of pieces: a word, a credential cue, a value, a *)
(* placeholder, or what a blind scrub leaves.  A value known by its form   *)
(* alone is a "key"; a "hex" value is found only in the company of a cue.  *)
(***************************************************************************)
EXTENDS Integers, Sequences, SequencesExt, FiniteSetsExt

CONSTANTS
    Value,          \* values the client may have
    Form,           \* Form[v]: "key", "random" or "hex"
    Entropy,        \* Masker.Entropy
    CueWindow,      \* hexCueWindow, in pieces
    Scope,          \* Scopes.For: by pattern, what text, edits and tools may receive
    Said,           \* literals the client may send
    Written,        \* literals the provider may answer with
    MaxBlocks

VARIABLES
    history,        \* the conversation as the client has it
    seen,           \* and as the provider has it
    vault,          \* the pattern each value was first stored under
    rec,            \* the ledger record of the last exchange
    \* History of what went on, for the properties:
    failed,         \* some store failed
    strayed,        \* a value was put back without the cue it is known by
    stable          \* every request went on from what the provider had seen

maskingVars == <<history, seen, vault, rec, failed, strayed, stable>>

None == "none"
word == [t |-> "word", v |-> None]
cue == [t |-> "cue", v |-> None]
blind == [t |-> "blind", v |-> None]
val(v) == [t |-> "val", v |-> v]
ph(v) == [t |-> "ph", v |-> v]

-----------------------------------------------------------------------------
(* find: patterns in their order, and the heuristic on what they left.     *)

After(lit, i, n) == \E j \in Max({1, i - n})..i - 1 : lit[j].t = "cue"

\* The pieces pattern p takes for a secret.  An assignment takes any value that
\* follows its cue, a placeholder among them.
Spots(lit, p) ==
    CASE p = "key" -> {i \in 1..Len(lit) : lit[i].t = "val" /\ Form[lit[i].v] = "key"}
      [] p = "assignment" -> {i \in 1..Len(lit) : lit[i].t \in {"val", "ph"} /\ After(lit, i, 1)}
      [] p = "entropy" -> {i \in 1..Len(lit) : /\ lit[i].t = "val"
                                               /\ \/ Form[lit[i].v] = "random"
                                                  \/ Form[lit[i].v] = "hex" /\ After(lit, i, CueWindow)}

Patterns == <<"key", "assignment">> \o (IF Entropy THEN <<"entropy">> ELSE <<>>)

\* Matches in the order of the literal; what one pattern took no later one does.
find(lit) ==
    LET of(i) == {n \in 1..Len(Patterns) : i \in Spots(lit, Patterns[n])}
    IN [i \in {j \in 1..Len(lit) : of(j) # {}} |-> Patterns[Min(of(i))]]

-----------------------------------------------------------------------------
(* The vault, as Placeholder and Secret use it.                            *)

Known == {v \in Value : vault[v] \notin {None, "expired"}}
sweep(m) == [v \in Value |-> IF m[v] = "expired" THEN None ELSE m[v]]

\* A store is saved when the value is new or the sweep removed something.
Saves(m, v) == sweep(m)[v] = None \/ sweep(m) # m

\* The vault after Placeholder, the save failing or not.
stored(m, v, pattern, fails) ==
    IF sweep(m)[v] # None \/ (fails /\ Saves(m, v)) THEN sweep(m)
    ELSE [sweep(m) EXCEPT ![v] = pattern]

-----------------------------------------------------------------------------
(* Mask.                                                                   *)

\* stringValues: a thinking block is passed over whole.
Maskable(b) == b.kind # "thinking"

\* Slip: a value the vault could not store is left in the body.
onFailureOpen(v) == val(v)

onFailure(v) == blind

\* One literal, piece by piece.  acc carries the vault, the count of saves tried
\* and the output from literal to literal; `fails` says which saves fail.
maskPiece(acc, lit, i, fails) ==
    LET hit == i \in DOMAIN find(lit) /\ lit[i].t # "ph"
        v == lit[i].v
        try == hit /\ Saves(acc.vault, v)
        bad == try /\ acc.tries + 1 \in fails
        out == IF ~hit THEN lit[i] ELSE IF bad THEN onFailure(v) ELSE ph(v)
    IN [vault |-> IF hit THEN stored(acc.vault, v, find(lit)[i], bad) ELSE acc.vault,
        tries |-> acc.tries + (IF try THEN 1 ELSE 0),
        masked |-> acc.masked + (IF hit THEN 1 ELSE 0),
        degraded |-> acc.degraded \/ bad,
        out |-> Append(acc.out, out)]

maskBlock(acc, b, fails) ==
    LET start == [acc EXCEPT !.out = <<>>]
        done == FoldLeft(LAMBDA a, i : maskPiece(a, b.lit, i, fails), start, [i \in 1..Len(b.lit) |-> i])
    IN IF Maskable(b) THEN [done EXCEPT !.out = Append(acc.out, [b EXCEPT !.lit = done.out])]
       ELSE [acc EXCEPT !.out = Append(@, b)]

Mask(body, fails) ==
    FoldLeft(LAMBDA a, b : maskBlock(a, b, fails),
             [vault |-> vault, tries |-> 0, masked |-> 0, degraded |-> FALSE, out |-> <<>>], body)

-----------------------------------------------------------------------------
(* Scopes.                                                                 *)

\* toolDestination.  A file edit names its target under its own key, and another
\* path-like field may stand beside it.
toolDestination(b) ==
    IF b.tool # "Edit" THEN [kind |-> "tool", tool |-> b.tool, reason |-> ""]
    ELSE [kind |-> "edit", tool |-> b.tool,
          reason |-> CASE ~b.parsed -> "unparsed-input"
                       [] b.parsed /\ b.own = "" -> "no-path"
                       [] OTHER -> IF {b.own, b.other} \subseteq {"", "inside"} THEN ""
                                   ELSE "outside-project"]

Destination(b) ==
    IF b.kind = "text" THEN [kind |-> "text", tool |-> "", reason |-> ""] ELSE toolDestination(b)

\* A tool a scope names receives values whatever its input.
deny(s, d) ==
    IF d.kind # "text" /\ d.tool \in s.tools THEN ""
    ELSE IF d.reason # "" THEN d.reason
    ELSE IF (d.kind = "text" /\ s.text) \/ (d.kind = "edit" /\ s.edit) THEN ""
    ELSE "scope"

\* Why a placeholder stays, "" when its value is put back.
verdict(d, v) == IF v \notin Known THEN "unknown" ELSE deny(Scope[vault[v]], d)

-----------------------------------------------------------------------------
(* Body: text and tool inputs are read, and nothing else.                  *)

Read(b) == b.kind \in {"text", "tool_use"}
Places(lit) == {i \in 1..Len(lit) : lit[i].t = "ph"}

restore(b) ==
    [b EXCEPT !.lit = [i \in 1..Len(b.lit) |->
        IF i \in Places(b.lit) /\ verdict(Destination(b), b.lit[i].v) = "" THEN val(b.lit[i].v)
        ELSE b.lit[i]]]

Restored(b) == {i \in Places(b.lit) : verdict(Destination(b), b.lit[i].v) = ""}

-----------------------------------------------------------------------------
Block(kind, lit) == [kind |-> kind, lit |-> lit, tool |-> "", parsed |-> TRUE, own |-> "", other |-> ""]
Call(tool, parsed, own, other, lit) ==
    [kind |-> "tool_use", lit |-> lit, tool |-> tool, parsed |-> parsed, own |-> own, other |-> other]

NoRecord == [masked |-> 0, degraded |-> FALSE, restored |-> 0, denied |-> 0, skipped |-> FALSE,
             answer |-> Block("none", <<>>)]

Init ==
    /\ history = <<>> /\ seen = <<>>
    /\ vault = [v \in Value |-> None]
    /\ rec = NoRecord
    /\ failed = FALSE /\ strayed = FALSE /\ stable = TRUE

\* The client says something and sends everything; mask keeps what Mask returns,
\* its error only recorded.
Send(lit, fails) ==
    /\ Len(history) = Len(seen) /\ Len(history) < MaxBlocks
    /\ history' = Append(history, Block("text", lit))
    /\ LET m == Mask(history', fails)
       IN /\ fails \subseteq 1..m.tries
          /\ vault' = m.vault /\ seen' = m.out
          /\ stable' = (stable /\ IsPrefix(seen, m.out))
          /\ failed' = (failed \/ m.degraded)
          /\ rec' = [NoRecord EXCEPT !.masked = m.masked, !.degraded = m.degraded]
    /\ UNCHANGED strayed

\* The provider answers, and the client gets it through modify and Body:
\* compressed, too large, cut short or no message, it is passed on as it came.
Answer(b, skipped) ==
    /\ Len(history) > 0 /\ Len(seen) = Len(history) /\ Len(history) < MaxBlocks
    /\ history[Len(history)].kind = "text" /\ rec.answer.kind = "none"
    /\ seen' = Append(seen, b)
    /\ LET read == Read(b) /\ ~skipped
           got == IF read THEN restore(b) ELSE b
       IN /\ history' = Append(history, got)
          /\ strayed' = (strayed \/ (read /\ \E i \in Restored(b) : i \notin DOMAIN find(got.lit)))
          /\ rec' = [rec EXCEPT !.answer = b, !.skipped = skipped,
                                !.restored = IF read THEN Cardinality(Restored(b)) ELSE 0,
                                !.denied = IF read THEN Cardinality(Places(b.lit) \ Restored(b)) ELSE 0]
    /\ UNCHANGED <<vault, failed, stable>>

\* A stored value grows older than the vault keeps it; the next store sweeps it.
Expire(v) ==
    /\ v \in Known
    /\ vault' = [vault EXCEPT ![v] = "expired"]
    /\ UNCHANGED <<history, seen, rec, failed, strayed, stable>>

Edits == {<<FALSE, "", "">>, <<TRUE, "", "inside">>, <<TRUE, "inside", "">>,
          <<TRUE, "inside", "outside">>, <<TRUE, "outside", "">>}

Next ==
    \/ \E lit \in Said, fails \in SUBSET (1..2) : Send(lit, fails)
    \/ \E lit \in Written :
        \/ \E skipped \in BOOLEAN : Answer(Block("text", lit), skipped)
        \/ Answer(Block("thinking", lit), FALSE)
        \/ Answer(Call("Bash", TRUE, "", "", lit), FALSE)
        \/ \E e \in Edits : Answer(Call("Edit", e[1], e[2], e[3], lit), FALSE)
    \/ \E v \in Value : Expire(v)

Spec == Init /\ [][Next]_maskingVars

-----------------------------------------------------------------------------
TypeOK ==
    /\ Len(history) <= MaxBlocks /\ Len(seen) = Len(history)
    /\ \A v \in Value : vault[v] \in {None, "expired", "key", "assignment", "entropy"}

\* A value the masker can tell where it stands.
Tellable(lit, i) ==
    /\ lit[i].t = "val"
    /\ \/ Form[lit[i].v] = "key"
       \/ After(lit, i, 1)
       \/ Entropy /\ (Form[lit[i].v] = "random" \/ After(lit, i, CueWindow))

Entered == {v \in Value : \E i \in 1..Len(history) :
                history[i].kind = "text" /\ val(v) \in Range(history[i].lit)}

\* Whatever saves of the vault fail, no value the masker can tell is in what the
\* provider saw; and unless a save failed or a value was put back without the
\* cue it is known by, what the provider has seen of the conversation - its own
\* answers, with values put back and taken out again, included - it is sent
\* again unchanged, so that its cached prefix still holds.  A request whose
\* value was scrubbed blind is recorded as degraded and no other is.  Every
\* placeholder of what is read of an answer is counted once, as restored or
\* denied; a value reaches a call only if the scope of the pattern it was first
\* stored under names the tool, or allows edits and every path named is inside
\* the project; it stands where its own placeholder stood.
MaskingHolds ==
    /\ TypeOK
    /\ \A n \in 1..Len(seen) : Maskable(seen[n]) =>
            \A i \in 1..Len(seen[n].lit) : ~Tellable(seen[n].lit, i)
    /\ stable \/ failed \/ strayed
    /\ rec.answer.kind = "none" /\ Len(seen) > 0 =>
            (rec.degraded <=> \E n \in 1..Len(seen) : blind \in Range(seen[n].lit))
    /\ rec.answer.kind # "none" =>
        LET b == rec.answer
            got == history[Len(history)]
            put == {i \in 1..Len(b.lit) : got.lit[i] # b.lit[i]}
        IN /\ rec.restored = Cardinality(put)
           /\ rec.restored + rec.denied =
                IF Read(b) /\ ~rec.skipped THEN Cardinality(Places(b.lit)) ELSE 0
           /\ \A i \in put :
                /\ b.lit[i] = ph(got.lit[i].v)
                /\ got.kind = "tool_use" =>
                    \E p \in {"key", "assignment", "entropy"} :
                        \/ got.tool \in Scope[p].tools
                        \/ /\ Scope[p].edit /\ got.tool = "Edit"
                           /\ got.parsed /\ got.own = "inside" /\ got.other # "outside"

=============================================================================
