------------------------------- MODULE Evidence -------------------------------
(***************************************************************************)
(* What a pinned occurrence in a transcript proves (evidenceverify), the   *)
(* claim made of it (evidenceclaim) and the reader that takes error flags  *)
(* off the same bytes before they are decoded (transcript/evidence.go).    *)
(*                                                                         *)
(* A document is a sequence of lexemes, chosen one by one while the strict *)
(* scanner reads them, so every document up to a length is read, the ill-  *)
(* formed ones up to the lexeme that makes them so.  K is the key in       *)
(* question, S another string, N a scalar neither true nor false, and "?"  *)
(* a string that is no UTF-8.  A digest stands for what it was taken of.   *)
(***************************************************************************)
EXTENDS Integers, Sequences, SequencesExt, FiniteSetsExt

CONSTANTS MaxDepth, MaxMembers, MaxMatches, \* Limits
          MaxLength

VARIABLES
    doc,            \* the document so far
    stack,          \* objects and arrays not yet closed
    want,           \* what the scanner looks for next
    members,        \* scanner.members
    occs,           \* members met, by where their value starts: found, for any target
    scopes,         \* history: what each closed object recorded under K
    result,         \* of the claim, once evaluated
    asked           \* what was claimed of which occurrence

evidenceVars == <<doc, stack, want, members, occs, scopes, result, asked>>

Scalars == {"T", "F", "N", "K", "S"}
Lexemes == Scalars \cup {"{", "}", "[", "]", ",", ":", "?"}
Failures == {"MALFORMED_JSON", "INVALID_UTF8", "RESOURCE_LIMIT"}

Here == Len(doc) + 1
Top == stack[Len(stack)]

-----------------------------------------------------------------------------
(* scanner: scanValue, scanObject, scanArray.                              *)

Fail(reason) == want' = reason /\ UNCHANGED <<stack, members, occs, scopes>>

\* enter, which bounds the recursion.
Enter(frame, next) ==
    IF Len(stack) = MaxDepth THEN Fail("RESOURCE_LIMIT")
    ELSE /\ stack' = Append(stack, frame) /\ want' = next
         /\ UNCHANGED <<members, occs, scopes>>

\* A value ends here: a member or an element of what encloses it, or the root.
Complete(rest, value, ss) ==
    IF rest = <<>> THEN want' = "end" /\ stack' = rest /\ scopes' = ss /\ UNCHANGED <<members, occs>>
    ELSE IF members = MaxMembers THEN Fail("RESOURCE_LIMIT")
    ELSE LET top == rest[Len(rest)]
             member == [key |-> top.key, object |-> top.start, start |-> top.valueStart,
                        end |-> Here, value |-> value]
         IN /\ members' = members + 1 /\ want' = "after" /\ scopes' = ss
            /\ IF top.kind = "{"
                 THEN /\ occs' = occs \cup {member}
                      /\ stack' = [rest EXCEPT ![Len(rest)].vals =
                                       IF top.key = "K" THEN Append(@, value) ELSE @]
                 ELSE UNCHANGED occs /\ stack' = rest

Close ==
    Complete(Front(stack), SubSeq(doc, Top.start, Len(doc)) \o <<IF Top.kind = "{" THEN "}" ELSE "]">>,
             IF Top.kind = "{"
             THEN scopes \cup {[start |-> Top.start, end |-> Here, vals |-> Top.vals]} ELSE scopes)

Frame(kind) == [kind |-> kind, start |-> Here, key |-> "", valueStart |-> 0, vals |-> <<>>]

scanValue(x) ==
    CASE x = "{" -> Enter(Frame("{"), "first key")
      [] x = "[" -> Enter(Frame("["), "first element")
      [] x \in Scalars -> Complete(stack, <<x>>, scopes)
      [] x = "]" /\ want = "first element" -> Close
      [] x = "?" -> Fail("INVALID_UTF8")
      [] OTHER -> Fail("MALFORMED_JSON")

scanKey(x) ==
    CASE x \in {"K", "S"} -> /\ stack' = [stack EXCEPT ![Len(stack)].key = x] /\ want' = "colon"
                             /\ UNCHANGED <<members, occs, scopes>>
      [] x = "}" /\ want = "first key" -> Close
      [] x = "?" -> Fail("INVALID_UTF8")
      [] OTHER -> Fail("MALFORMED_JSON")

scanColon(x) ==
    IF x # ":" THEN Fail("MALFORMED_JSON")
    ELSE /\ stack' = [stack EXCEPT ![Len(stack)].valueStart = Here + 1] /\ want' = "value"
         /\ UNCHANGED <<members, occs, scopes>>

scanAfter(x) ==
    CASE x = "," -> /\ want' = IF Top.kind = "{" THEN "key" ELSE "value"
                    /\ UNCHANGED <<stack, members, occs, scopes>>
      [] x = "}" /\ Top.kind = "{" -> Close
      [] x = "]" /\ Top.kind = "[" -> Close
      [] OTHER -> Fail("MALFORMED_JSON")

\* scanWhole: one root value, and nothing after it.
Scan(x) ==
    /\ want \notin Failures /\ result = <<>> /\ Len(doc) < MaxLength
    /\ doc' = Append(doc, x)
    /\ \/ want \in {"value", "first element"} /\ scanValue(x)
       \/ want \in {"key", "first key"} /\ scanKey(x)
       \/ want = "colon" /\ scanColon(x)
       \/ want = "after" /\ scanAfter(x)
       \/ want = "end" /\ Fail("MALFORMED_JSON")
    /\ UNCHANGED <<result, asked>>

-----------------------------------------------------------------------------
(* scanScope and the flag reader: one object's own members, found again.   *)

\* How deep lexeme i lies in the object that starts at o.
depth(o, i) ==
    Cardinality({j \in o..i - 1 : doc[j] \in {"{", "["}})
        - Cardinality({j \in o..i - 1 : doc[j] \in {"}", "]"}})

\* Slip: members of nested objects are taken for the object's own.
ownMembersNested(o, e) == {i \in o..e : doc[i] = ":"}

ownMembers(o, e) == {i \in o..e : doc[i] = ":" /\ depth(o, i) = 1}

memberValue(o, e, i) ==
    SubSeq(doc, i + 1, Min({j \in i + 1..e : depth(o, j) = 1 /\ doc[j] \in {",", "}"}}) - 1)

scanScope(o, e) ==
    LET colons == SetToSortSeq(ownMembers(o, e), <)
        wanted == SelectSeq(colons, LAMBDA i : doc[i - 1] = "K")
    IN [n \in 1..Len(wanted) |-> memberValue(o, e, wanted[n])]

hasConflict(vals) == \E n \in 2..Len(vals) : vals[n] # vals[1]

-----------------------------------------------------------------------------
(* VerifyWithLimits.                                                       *)

Result(verdict, reason) == [verdict |-> verdict, reason |-> reason]
Unverified(reason) == Result("UNVERIFIED", reason)

\* loc: the document and the fragment its digests were taken of are these or
\* not, where the value starts, and how long it is.
Verify(loc, expect) ==
    LET at == {o \in occs : o.start = loc.offset}
    IN IF ~loc.sameDoc THEN Unverified("TRANSCRIPT_HASH_MISMATCH")
       ELSE IF loc.length <= 0 THEN Unverified("LOCATOR_MALFORMED")
       ELSE IF loc.offset > Len(doc) \/ loc.length > Len(doc) - loc.offset + 1
         THEN Unverified("LOCATOR_OUT_OF_RANGE")
       ELSE IF ~loc.sameFragment THEN Unverified("FRAGMENT_HASH_MISMATCH")
       ELSE IF want # "end" THEN Unverified(IF want \in Failures THEN want ELSE "MALFORMED_JSON")
       ELSE IF at = {} THEN Unverified("LOCATOR_NOT_VALUE")
       ELSE LET o == CHOOSE m \in at : TRUE
                frame == CHOOSE s \in scopes : s.start = o.object
                vals == scanScope(o.object, frame.end)
            IN IF o.key # "K" THEN Unverified("LOCATOR_KEY_MISMATCH")
               ELSE IF o.end - o.start + 1 # loc.length THEN Unverified("FRAGMENT_SPAN_MISMATCH")
               ELSE IF Len(vals) > MaxMatches THEN Unverified("RESOURCE_LIMIT")
               ELSE IF hasConflict(vals) THEN Result("AMBIGUOUS", "DUPLICATE_CONFLICT")
               ELSE IF o.value = <<expect>> THEN Result("CONFIRMED", "LITERAL_MATCH")
               ELSE Result("REFUTED", "LITERAL_MISMATCH")

-----------------------------------------------------------------------------
(* Evaluate: the claim is never stronger than the evidence.                *)

verdictToOutcome(v) ==
    CASE v = "CONFIRMED" -> "supports" [] v = "REFUTED" -> "contradicts"
      [] v = "AMBIGUOUS" -> "inconclusive" [] v = "UNVERIFIED" -> "not-run"
verdictToStanding(v) ==
    CASE v = "CONFIRMED" -> "SUPPORTED" [] v = "REFUTED" -> "CONTRADICTED"
      [] v \in {"AMBIGUOUS", "UNVERIFIED"} -> "UNRESOLVED"

Claim(v) == [verdict |-> v.verdict, reason |-> v.reason, outcome |-> verdictToOutcome(v.verdict),
             standing |-> verdictToStanding(v.verdict)]

Evaluate(loc, expect, coverage) ==
    /\ result = <<>> /\ doc # <<>>
    /\ asked' = [loc |-> loc, expect |-> expect, coverage |-> coverage]
    /\ result' = IF coverage \in {"FULL", "PARTIAL"} THEN Claim(Verify(loc, expect))
                 ELSE Claim(Unverified(""))
    /\ UNCHANGED <<doc, stack, want, members, occs, scopes>>

-----------------------------------------------------------------------------
(* scanToolResult and flagValue, on a block the decoder accepted.          *)

flagValue(vals) ==
    LET bools == {v \in Range(vals) : v \in {<<"T">>, <<"F">>}}
        others == Range(vals) \ bools
    IN CASE vals = <<>> -> "absent"
         [] others # {} -> IF bools # {} THEN "conflict" ELSE "non-boolean"
         [] OTHER -> IF Cardinality(bools) = 2 THEN "conflict"
                     ELSE IF bools = {<<"T">>} THEN "true" ELSE "false"

IsBlock == want = "end" /\ doc[1] = "{"
errorFlag == flagValue(scanScope(1, Len(doc)))

-----------------------------------------------------------------------------
Init ==
    /\ doc = <<>> /\ stack = <<>> /\ want = "value" /\ members = 0
    /\ occs = {} /\ scopes = {} /\ result = <<>> /\ asked = <<>>

Locator(offset, length, sameDoc, sameFragment) ==
    [offset |-> offset, length |-> length, sameDoc |-> sameDoc, sameFragment |-> sameFragment]

\* Every occurrence as it was pinned; in a document read to its end, every
\* offset with a fragment of one lexeme too, and a pin taken of other bytes, of
\* nothing, or past the end.
Locators ==
    {Locator(m.start, m.end - m.start + 1, TRUE, TRUE) : m \in occs}
        \cup IF want # "end" THEN {}
             ELSE {Locator(o, 1, TRUE, TRUE) : o \in 1..Len(doc)}
                    \cup {Locator(1, 1, FALSE, TRUE), Locator(1, 1, TRUE, FALSE),
                          Locator(1, 0, TRUE, TRUE), Locator(Len(doc), 2, TRUE, TRUE),
                          Locator(Len(doc) + 2, 1, TRUE, TRUE)}

\* The whole document has been read when nothing more is chosen; one that ends
\* early is claimed about too.
Next ==
    \/ \E x \in Lexemes : Scan(x)
    \/ /\ want \in Failures \cup {"end", "after"}
       /\ \/ \E loc \in Locators : Evaluate(loc, "T", "FULL")
          \/ \E m \in occs : Evaluate(Locator(m.start, 1, TRUE, TRUE), "T", "NONE")

Spec == Init /\ [][Next]_evidenceVars

-----------------------------------------------------------------------------
TypeOK ==
    /\ Len(doc) <= MaxLength /\ Len(stack) <= MaxDepth /\ members <= MaxMembers
    /\ want \in Failures \cup {"value", "first element", "key", "first key", "colon", "after", "end"}

\* The rescan of an object finds what the object recorded under the key and
\* nothing of the objects inside it.  A claim is decided only on the document
\* the pin was taken of, complete and well formed, for a value of the key that
\* the pin spans exactly; then it is supported if all the object records under
\* the key is that literal, contradicted if it is one other value, and open if
\* the values differ, whichever of them was pinned.  Without raw bytes, or past
\* a limit, nothing is decided.  The reader that flags errors agrees: it says
\* true or false only where every pin on that block is decided the same way.
EvidenceHolds ==
    /\ TypeOK
    /\ want = "end" => \A s \in scopes : scanScope(s.start, s.end) = s.vals
    /\ result # <<>> /\ result.verdict # "UNVERIFIED" =>
        LET o == CHOOSE m \in occs : m.start = asked.loc.offset
            vals == (CHOOSE s \in scopes : s.start = o.object).vals
        IN /\ asked.coverage = "FULL" /\ asked.loc.sameDoc /\ asked.loc.sameFragment
           /\ want = "end" /\ o.key = "K" /\ o.end = o.start + asked.loc.length - 1
           /\ result.standing = IF Cardinality(Range(vals)) > 1 THEN "UNRESOLVED"
                                ELSE IF Range(vals) = {<<"T">>} THEN "SUPPORTED" ELSE "CONTRADICTED"
    /\ result # <<>> /\ IsBlock /\ errorFlag \in {"true", "false"}
            /\ result.verdict # "UNVERIFIED"
            /\ (\E m \in occs : m.start = asked.loc.offset /\ m.object = 1) =>
            result.verdict = IF errorFlag = "true" THEN "CONFIRMED" ELSE "REFUTED"
    /\ IsBlock => (errorFlag = "absent" <=> ~\E m \in occs : m.object = 1 /\ m.key = "K")

=============================================================================
