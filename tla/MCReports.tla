------------------------------ MODULE MCReports ------------------------------
(* What decides on evidence, in parts that share no state: the reviewers of   *)
(* a change's conditionals, the verifier of a claim about a stored document,  *)
(* the attribution of a lane's tokens, the masking of a conversation, the     *)
(* series of probe readings, and the rules document.  `which` says which of   *)
(* them this behaviour is about; the others keep their initial state.         *)
EXTENDS GuardCheck, Series, Rules
LOCAL INSTANCE TLC

CONSTANTS MaxDepth, MaxMembers, MaxMatches, MaxLength
CONSTANTS Results, OutTokens, OutBytes, PrefixTokens, PrefixBytes, MinFit, TTL,
          MaxRequests, MaxOdd
CONSTANTS Value, Form, Entropy, CueWindow, Scope, Said, Written, MaxBlocks

VARIABLES which
VARIABLES doc, stack, want, members, occs, scopes, result, asked
VARIABLES visible, requests, hidden, gone, kept, odd, turns, fit, blame
VARIABLES history, seen, vault, rec, failed, strayed, stable

Verifier == INSTANCE Evidence
Lane == INSTANCE Attribution
Masker == INSTANCE Masking

evidence == <<doc, stack, want, members, occs, scopes, result, asked>>
lane == <<visible, requests, hidden, gone, kept, odd, turns, fit, blame>>
masker == <<history, seen, vault, rec, failed, strayed, stable>>

\* Six conditionals: two with one text in one function, told apart by what
\* produced the value they test, one beside them, and one each in a file of
\* another platform, of no build and of another platform that does not parse.
MCFile == <<"a", "a", "a", "b", "c", "d">>
MCPkg == <<"p", "p", "p", "p", "q", "q">>
MCIdentity == <<"i", "i", "j", "k", "l", "m">>
MCAddress == <<"i1", "i2", "j", "k", "l", "m">>
MCWhere == <<"here", "here", "here", "elsewhere", "nowhere", "unparsed">>
MCManifests == {{}, {"i2"}, {"i1", "j"}}

\* Two results of equal length and unequal tokens, one of them an error.
MCResults ==
    {[tokens |-> 2, bytes |-> 4, label |-> "a", err |-> FALSE],
     [tokens |-> 3, bytes |-> 4, label |-> "b", err |-> TRUE]}

\* A value a pattern knows and one only a cue beside it gives away; a scope
\* that admits everything, one that admits text and one tool, one that admits
\* nothing.
MCForm == [v \in {"k", "h"} |-> IF v = "k" THEN "key" ELSE "hex"]
scope(text, edit, tools) == [text |-> text, edit |-> edit, tools |-> tools]
MCScope ==
    [p \in {"key", "assignment", "entropy"} |->
        CASE p = "key" -> scope(TRUE, TRUE, {})
          [] p = "assignment" -> scope(TRUE, FALSE, {"Bash"})
          [] OTHER -> scope(FALSE, FALSE, {})]
piece(t, v) == [t |-> t, v |-> v]
plain == piece("word", "none")
hint == piece("cue", "none")
MCSaid ==
    {<<piece("val", "k")>>, <<piece("val", "h")>>, <<hint, piece("val", "h")>>,
     <<hint, plain, piece("val", "h")>>, <<hint, piece("val", "k"), piece("val", "h")>>}
MCWritten ==
    {<<plain>>, <<piece("ph", "k")>>, <<piece("ph", "h")>>, <<hint, piece("ph", "h")>>,
     <<hint, piece("ph", "k"), piece("ph", "h")>>}

\* One range, and an instrument whose second version misreads a size by one.
MCRanges == {<<0, 4>>}
MCBias == <<0, 1>>
Busy(p) == ~is(p, "idle")

\* The experiment shares nothing with the runs but the provider, whose part in it
\* is `keyed`, so it is tried by itself; no release goes back a method; and either
\* the instrument changes or a floor moves.
OneByOne ==
    LET varying == \E p \in Proc : is(p, "varying") \/ (is(p, "varying"))'
    IN  /\ varying => /\ series = <<>> /\ now = 0 /\ moves = 0
                      /\ <<series, now, moves, instrument>>' = <<series, now, moves, instrument>>
                      /\ Cardinality({p \in Proc : Busy(p) \/ Busy(p)'}) = 1
        /\ keyed /\ (\E p \in Proc : Busy(p)') => varying
        /\ instrument' >= instrument /\ (instrument' = 1 \/ moves' = 0)
        /\ Len(series') + Cardinality({p \in Proc : Busy(p)'}) <= MaxLines

\* A family and one of its versions; the table of the second build no longer
\* prices the family.  Documents name their prices for a model of each.
row(m, prefix, price, read, from, until) ==
    [match |-> m, provider |-> "none", prefix |-> prefix, price |-> price, read |-> read,
     priced |-> price > 0, from |-> from, until |-> until, claim |-> NoClaim]
base(m, prefix, price, read) == row(m, prefix, price, read, Unset, Unset)
MCOccursIn ==
    [m \in {"opus-4", "opus-4-8", "gpt-5"} |->
        CASE m = "opus-4" -> {"opus-4", "opus-4-8", "opus-4-9"}
          [] m = "opus-4-8" -> {"opus-4-8"} [] OTHER -> {"gpt-5"}]
MCOtherVersion ==
    [m \in {"opus-4", "opus-4-8", "gpt-5"} |-> IF m = "opus-4" THEN {"opus-4-8", "opus-4-9"} ELSE {}]
MCModelTable ==
    <<<<base("opus-4-8", 4, 5, 10), base("opus-4", 2, 15, 0)>>,
      <<base("opus-4-8", 4, 5, 10), base("opus-4", 2, 0, 0)>>>>
MCRealFloor == [id \in Name |-> 2]
hop(scheme, host) == [scheme |-> scheme, host |-> host]
feed(hops, answer) == [hops |-> hops, answer |-> answer]
document(discount, rows, maker) ==
    [is |-> "document", schema |-> TRUE, version |-> "v", provider |-> "named",
     discount |-> discount, rows |-> rows, source |-> hop("file", "local"), fetched |-> Unset,
     hops |-> <<hop("file", "local")>>, maker |-> maker, table |-> 0]
\* A promotion alone, so that the compiled price returns after it; and one that
\* stands after the price it replaces.
sale(d, until) == <<row("opus-4-8", 4, 2, 10, d, until), base("gpt-5", 1, 3, 50)>>
MCFeeds ==
    {feed(<<hop("https", "a")>>, document(50, sale(1, 1), "feed")),
     feed(<<hop("https", "a"), hop("https", "b")>>, document(50, sale(2, 2), "feed")),
     feed(<<hop("https", "a"), hop("http", "b")>>, document(50, sale(1, 1), "feed")),
     feed(<<hop("https", "a"), hop("https", "b"), hop("https", "c")>>, document(50, sale(1, 1), "feed")),
     feed(<<hop("http", "b")>>, document(50, sale(1, 1), "feed")),
     feed(<<hop("https", "c")>>, document(50, sale(1, 1) \o <<row("opus-4-8", 4, 3, 10, Unset, 1)>>, "feed")),
     feed(<<hop("https", "c")>>, [is |-> "payment"])}
MCHandMade ==
    {document(0, <<base("opus-4-8", 4, 6, 10)>> \o sale(1, 1) \o sale(2, Unset), "hand"),
     document(120, sale(1, 1), "hand")}
entry(m, bare, own, price, read, write) ==
    [model |-> m, bare |-> bare, own |-> own, whole |-> TRUE, price |-> price, read |-> read, write |-> write]
MCDatabases ==
    {{entry("opus-4-8", TRUE, TRUE, 500, Unset, 625), entry("opus-4", FALSE, TRUE, 900, Unset, Unset),
      entry("opus-4", TRUE, FALSE, 1400, Unset, Unset)}}


\* Measuring is tried by itself, command after command; the commands that only
\* read are tried one at a time; and either the build or the day changes.
Measuring == \E s \in LedgerSession : served[s] # {}
Active == {p \in Invocation : Step(p) # "none"}
Alone == \A p \in Invocation : Step(p) \in {"describes", "checks", "ends", "measures"} => Active = {p}
Apart ==
    /\ Cardinality(UNION {{s} \X served[s] : s \in LedgerSession})' <= MaxServed
    /\ \A s \in LedgerSession : \A r \in served'[s] : r.model \in {"opus-4-8", "opus-4-9"}
    /\ Alone' /\ (shipped' = 1 \/ day' = 1)
    /\ Measuring' => /\ shipped' = 1 /\ day' = 1 /\ Cardinality(Active') <= 1
                     /\ \A d \in Carried' : d.is = "document" => d.maker = "measure"
    /\ ~Measuring' => \A p \in Invocation : running'[p].step # "measures"

ReportsInit ==
    /\ which \in {"review", "evidence", "lane", "masking", "series", "rules"}
    /\ SeriesInit /\ instrument = 1 /\ minimum["a"]["s2"] = 4
    /\ which # "series" => ~keyed /\ minimum["a"]["s1"] = 4
    /\ RulesInit
    /\ Init
    /\ Verifier!Init
    /\ Lane!Init /\ (which # "lane" => visible)
    /\ Masker!Init

ReportsNext ==
    \/ which = "review" /\ Next /\ UNCHANGED <<which, evidence, lane, masker, seriesVars, rulesVars>>
    \/ which = "evidence" /\ Verifier!Next /\ UNCHANGED <<which, vars, lane, masker, seriesVars, rulesVars>>
    \/ which = "lane" /\ Lane!Next /\ UNCHANGED <<which, vars, evidence, masker, seriesVars, rulesVars>>
    \/ which = "masking" /\ Masker!Next /\ UNCHANGED <<which, vars, evidence, lane, seriesVars, rulesVars>>
    \/ which = "series" /\ SeriesNext /\ OneByOne /\ UNCHANGED <<which, vars, evidence, lane, masker, rulesVars>>
    \/ which = "rules" /\ RulesNext /\ Apart /\ UNCHANGED <<which, vars, evidence, lane, masker, seriesVars>>

ReportsSpec == ReportsInit /\ [][ReportsNext]_<<which, vars, evidence, lane, masker, seriesVars, rulesVars>>

Commands == Permutations(Proc \cup Invocation)

-----------------------------------------------------------------------------
\* A verdict about a stored document is what the document says, within the
\* limits, and the two scanners agree (Evidence.EvidenceHolds).
EvidenceHolds == which = "evidence" => Verifier!EvidenceHolds

\* Tokens are attributed to what brought them in, and none twice
\* (Attribution.AttributionIsTrue).
AttributionIsTrue == which = "lane" => Lane!AttributionIsTrue

\* No value the masker recognises reaches the provider, and a placeholder is put
\* back only where the scopes allow it (Masking.MaskingHolds).
MaskingHolds == which = "masking" => Masker!MaskingHolds

==============================================================================
