-------------------------------- MODULE Cost --------------------------------
(* `replay cost` over transcripts that agents are still writing, and the      *)
(* index of figures already understood that it keeps between runs             *)
(* (cmd/replay/cost.go, costcache.go, overlap.go).                            *)
(*                                                                            *)
(* A transcript only grows, so its content is named by its length and its     *)
(* identity, size and modification time, is that length too.  The figures of  *)
(* a transcript are named by what they were computed from: the length that    *)
(* was read and the price table in effect.  A record's model stands for the   *)
(* model and the date a price is looked up by; a request costs one token.     *)
EXTENDS Integers, FiniteSets, FiniteSetsExt, Sequences, SequencesExt

CONSTANTS
    Path,           \* the transcripts, by name
    Log, Begun,     \* the requests each will hold in the end, and holds at first
    SessionOf,      \* the session each belongs to
    Build, Document, \* builds are numbered as they are released
    Price,          \* Price[t][m]: table t's price for model m, 0 for none
    Proc,
    MaxRuns, MaxEvents  \* bounds on runs, and on changes around them

File == ToSet(Path)
None == "none"
\* The rules document: none, and half of one; builds and documents are numbers.
NoDocument == 0
Torn == -1

VARIABLES
    size,           \* requests written to each transcript so far
    installed,      \* the build of the replay binary
    document,       \* ~/.replay/rules.json: none, a broken one, or a document
    index, tmp,     \* cost-index.json and cost-index.json.tmp
    runs, events,
    phase, build, table,
    entries, dirty, \* costCache of each process
    cold, read, units, unreadable,
    handle,         \* the file a process in os.WriteFile writes to
    since,          \* history: the sizes when the transcripts were listed
    raced,          \* history: transcripts that grew between read and put
    changed         \* history: a document was installed beside an index

files == <<size, installed, document, index, tmp>>
local == <<phase, build, table, entries, dirty, cold, read, units, unreadable>>
vars == <<files, local, runs, events, handle, since, raced, changed>>

Empty == [f \in {} |-> 0]

\* What a file may be: missing, not a document, or an index.
Missing == [is |-> "missing", key |-> 0, entries |-> Empty]
Broken == [is |-> "broken", key |-> 0, entries |-> Empty]

Init ==
    /\ size = Begun
    /\ installed = Min(Build) /\ document = NoDocument
    /\ index = Missing /\ tmp = Missing
    /\ runs = 0 /\ events = 0
    /\ phase = [p \in Proc |-> "idle"]
    /\ build = [p \in Proc |-> installed]
    /\ table = [p \in Proc |-> installed]
    /\ entries = [p \in Proc |-> Empty]
    /\ dirty = [p \in Proc |-> FALSE]
    /\ cold = [p \in Proc |-> <<>>]
    /\ read = [p \in Proc |-> Empty]
    /\ units = [p \in Proc |-> <<>>]
    /\ unreadable = [p \in Proc |-> 0]
    /\ handle = [p \in Proc |-> None]
    /\ since = [p \in Proc |-> size]
    /\ raced = {} /\ changed = FALSE

-----------------------------------------------------------------------------
(* The figures of one transcript, and of all of them.                         *)

\* analysis.AsRunSession: a request id already met in the file is not counted.
Counted(f, n) ==
    {i \in 1..n : \A j \in 1..(i - 1) : Log[f][i].id = "" \/ Log[f][j].id # Log[f][i].id}

SumOver(S, g(_)) == FoldSet(LAMBDA i, acc : acc + g(i), 0, S)

\* The costUnit runCost builds from the first n requests of a transcript.
costUnit(f, n, t) ==
    LET rate(i) == Price[t][Log[f][i].model]
        priced == {i \in 1..n : rate(i) > 0}
    IN  [ID |-> SessionOf[f],
         Lanes |-> 1,
         Unpriced |-> rate(1) = 0,
         Requests |-> Cardinality(Counted(f, n)),
         PricedRequests |-> Cardinality(Counted(f, n) \cap priced),
         CostUSD |-> SumOver(Counted(f, n), rate),
         RebilledUSD |-> SumOver(priced, LAMBDA i : Log[f][i].deficit * rate(i)),
         RebilledTokens |-> SumOver(1..n, LAMBDA i : Log[f][i].deficit),
         UnpricedRebilledTokens |->
             SumOver((1..n) \ priced, LAMBDA i : Log[f][i].deficit),
         MixedEpochs |->
             Cardinality({Log[f][i].epoch : i \in Counted(f, n)} \ {""}) > 1]

\* Slip: the dollars of a session are its first lane's until it is priced.
foldLaneFirst(s, u) ==
    [s EXCEPT !.Lanes = @ + 1, !.Unpriced = @ /\ u.Unpriced,
              !.Requests = @ + u.Requests, !.PricedRequests = @ + u.PricedRequests,
              !.CostUSD = IF s.Unpriced THEN @ ELSE @ + u.CostUSD]

\* One more lane of a session the fold has met.
foldLane(s, u) ==
    [ID |-> s.ID,
     Lanes |-> s.Lanes + 1,
     Unpriced |-> s.Unpriced /\ u.Unpriced,
     Requests |-> s.Requests + u.Requests,
     PricedRequests |-> s.PricedRequests + u.PricedRequests,
     CostUSD |-> s.CostUSD + u.CostUSD,
     RebilledUSD |-> s.RebilledUSD + u.RebilledUSD,
     RebilledTokens |-> s.RebilledTokens + u.RebilledTokens,
     UnpricedRebilledTokens |-> s.UnpricedRebilledTokens + u.UnpricedRebilledTokens,
     MixedEpochs |-> s.MixedEpochs \/ u.MixedEpochs]

\* One row for each session, in the order the sessions were met.
foldSessions(us) ==
    FoldLeft(LAMBDA rows, u :
                 IF \E k \in DOMAIN rows : rows[k].ID = u.ID
                 THEN [k \in DOMAIN rows |->
                           IF rows[k].ID = u.ID THEN foldLane(rows[k], u) ELSE rows[k]]
                 ELSE Append(rows, u),
             <<>>, us)

\* The totals of the report: tokens of every row, dollars of the priced ones.
summarise(rows) ==
    LET all == DOMAIN rows
        priced == {k \in all : ~ rows[k].Unpriced}
        unpriced == all \ priced
    IN  [Tasks |-> Cardinality(priced),
         Lanes |-> SumOver(priced, LAMBDA k : rows[k].Lanes),
         PricedRequests |-> SumOver(all, LAMBDA k : rows[k].PricedRequests),
         UnpricedRequests |->
             SumOver(all, LAMBDA k : rows[k].Requests - rows[k].PricedRequests),
         TotalUSD |-> SumOver(priced, LAMBDA k : rows[k].CostUSD),
         RebilledUSD |-> SumOver(priced, LAMBDA k : rows[k].RebilledUSD),
         RebilledTokens |-> SumOver(all, LAMBDA k : rows[k].RebilledTokens),
         UnpricedRebilledTokens |->
             SumOver(priced, LAMBDA k : rows[k].UnpricedRebilledTokens)
             + SumOver(unpriced, LAMBDA k : rows[k].RebilledTokens),
         MixedEpochSessions |-> Cardinality({k \in all : rows[k].MixedEpochs})]

\* requestJoin.add: an id the provider never sent is no key.
add(j, id, measured) ==
    [total |-> j.total + 1,
     unjoinable |-> j.unjoinable + (IF measured THEN 0 ELSE 1),
     duplicated |-> j.duplicated + (IF measured /\ id \in j.seen THEN 1 ELSE 0),
     seen |-> j.seen \cup (IF measured THEN {id} ELSE {})]

\* requestIDs: a request without any id is offered to nobody.
Identified(f, n) == SelectSeq(SubSeq(Log[f], 1, n), LAMBDA r : r.id # "")

requestIDs(j, f, n) ==
    FoldLeft(LAMBDA acc, r : add(acc, r.id, r.measured), j, Identified(f, n))

\* addCached: the ids the index kept, and so many that had none.
addCached(j, f, n) ==
    LET ids == SelectSeq(Identified(f, n), LAMBDA r : r.measured)
        none == Len(Identified(f, n)) - Len(ids)
    IN  FoldLeft(LAMBDA acc, k : add(acc, "", FALSE),
                 FoldLeft(LAMBDA acc, r : add(acc, r.id, TRUE), j, ids),
                 [k \in 1..none |-> k])

\* What runCost prints: the rows' totals, the join and the two disclosures.
Report(us, bad) ==
    LET figures(k) == costUnit(us[k].file, us[k].of, us[k].under)
        all == [k \in DOMAIN us |-> figures(k)]
        joined == FoldLeft(LAMBDA j, u : IF u.warm THEN addCached(j, u.file, u.of)
                                         ELSE requestIDs(j, u.file, u.of),
                           [total |-> 0, unjoinable |-> 0, duplicated |-> 0, seen |-> {}],
                           us)
    IN  [summary |-> summarise(foldSessions(all)),
         join |-> joined,
         unpriced |-> Cardinality({k \in DOMAIN us : all[k].Unpriced}),
         unreadable |-> bad]

-----------------------------------------------------------------------------
(* The world: agents write, the binary is replaced, a document is installed.  *)

Grow(f) ==
    /\ size[f] < Len(Log[f])
    /\ size' = [size EXCEPT ![f] = @ + 1]
    /\ raced' = IF \E p \in Proc : f \in DOMAIN read[p] THEN raced \cup {f} ELSE raced
    /\ UNCHANGED <<installed, document, index, tmp, local, runs, handle, since, changed>>

Upgrade(b) ==
    /\ b > installed
    /\ installed' = b
    /\ UNCHANGED <<size, document, index, tmp, local, runs, handle, since, raced, changed>>

\* updateRules validates and writes the document in place; a process killed
\* meanwhile leaves half of one.
updateRules(d) ==
    /\ document = NoDocument
    /\ document' = d
    /\ changed' = (changed \/ (d # Torn /\ runs > 0))
    /\ UNCHANGED <<size, installed, index, tmp, local, runs, handle, since, raced>>

-----------------------------------------------------------------------------
(* One run of `replay cost`.                                                  *)

\* LoadInstalledRules: a broken document is reported and not used.
InEffect(b, d) == IF d \in {NoDocument, Torn} THEN b ELSE d

\* The key of the index: the build with its compiled tables.
costIndexKey(b) == b

\* transcriptFiles: the largest first, then by name.
transcriptFiles(sz) ==
    SetToSortSeq(DOMAIN Path,
                 LAMBDA i, j : \/ sz[Path[i]] > sz[Path[j]]
                               \/ sz[Path[i]] = sz[Path[j]] /\ i < j)

\* costCache.load: an index that cannot be read, or of another key, is empty.
Loaded(b) ==
    IF index.is = "index" /\ index.key = costIndexKey(b)
    THEN index.entries ELSE Empty

\* Slip: an entry is taken for its name alone.
getAnySize(known, f) == f \in DOMAIN known

\* costCache.get: the file is still the one the entry was stamped for.
get(known, f) == f \in DOMAIN known /\ known[f].size = size[f]

\* From LoadInstalledRules to the loop that takes what the index knows: the
\* rules, the list of files, the index, and a look at each file it names.
\* Nothing here is read twice, so that it happens at once hides nothing.
Start(p) ==
    LET known == Loaded(installed)
        listed == [k \in DOMAIN Path |-> Path[transcriptFiles(size)[k]]]
        warm == SelectSeq(listed, LAMBDA f : get(known, f))
    IN  /\ phase[p] \in {"idle", "done"} /\ runs < MaxRuns
        /\ runs' = runs + 1
        /\ phase' = [phase EXCEPT ![p] = "walk"]
        /\ build' = [build EXCEPT ![p] = installed]
        /\ table' = [table EXCEPT ![p] = InEffect(installed, document)]
        /\ entries' = [entries EXCEPT ![p] = known]
        /\ dirty' = [dirty EXCEPT ![p] = FALSE]
        /\ units' = [units EXCEPT ![p] =
                         [k \in DOMAIN warm |->
                             [file |-> warm[k], of |-> known[warm[k]].of,
                              under |-> known[warm[k]].under, warm |-> TRUE]]]
        /\ cold' = [cold EXCEPT ![p] = SelectSeq(listed, LAMBDA f : ~ get(known, f))]
        /\ unreadable' = [unreadable EXCEPT ![p] = 0]
        /\ since' = [since EXCEPT ![p] = size]
        /\ UNCHANGED <<files, read, handle, raced, changed>>

\* A worker of forEachSession parses a file; files are read in any order.
loadSession(p, f) ==
    /\ phase[p] = "walk" /\ f \in ToSet(cold[p]) \ DOMAIN read[p]
    /\ read' = [read EXCEPT ![p] = [g \in DOMAIN @ \cup {f} |->
                                        IF g = f THEN size[f] ELSE @[g]]]
    /\ UNCHANGED <<files, phase, build, table, entries, dirty, cold, units,
                   unreadable, runs, handle, since, raced, changed>>

\* visit, in file order: the unit, and put, which looks at the file again.
Visit(p) ==
    LET f == Head(cold[p]) n == read[p][f]
    IN  /\ phase[p] = "walk" /\ cold[p] # <<>> /\ f \in DOMAIN read[p]
        /\ cold' = [cold EXCEPT ![p] = Tail(@)]
        /\ read' = [read EXCEPT ![p] = [g \in DOMAIN @ \ {f} |-> @[g]]]
        /\ IF n = 0
           THEN /\ unreadable' = [unreadable EXCEPT ![p] = @ + 1]
                /\ UNCHANGED <<units, entries, dirty>>
           ELSE /\ units' = [units EXCEPT ![p] =
                        Append(@, [file |-> f, of |-> n, under |-> table[p],
                                   warm |-> FALSE])]
                /\ entries' = [entries EXCEPT ![p] =
                        [g \in DOMAIN @ \cup {f} |->
                            IF g = f THEN [size |-> size[f], of |-> n, under |-> table[p]]
                            ELSE @[g]]]
                /\ dirty' = [dirty EXCEPT ![p] = TRUE]
                /\ UNCHANGED unreadable
        /\ UNCHANGED <<files, phase, build, table, runs, handle, since, raced,
                       changed>>

\* Nothing to save, or --compare, which returns first.
PrintOnly(p) ==
    /\ phase[p] = "walk" /\ cold[p] = <<>>
    /\ phase' = [phase EXCEPT ![p] = "done"]
    /\ UNCHANGED <<files, build, table, entries, dirty, cold, read, units,
                   unreadable, runs, handle, since, raced, changed>>

\* costCache.save: os.WriteFile empties the temporary file ...
saveOpen(p) ==
    /\ phase[p] = "walk" /\ cold[p] = <<>> /\ dirty[p]
    /\ tmp' = Broken
    /\ handle' = [handle EXCEPT ![p] = "tmp"]
    /\ phase' = [phase EXCEPT ![p] = "write"]
    /\ UNCHANGED <<size, installed, document, index, build, table, entries, dirty,
                   cold, read, units, unreadable, runs, since, raced, changed>>

\* ... writes it, wherever another process may have moved it, over what is
\* there: two writers of one file can leave a mixture of both ...
saveWrite(p) ==
    LET doc == [is |-> "index", key |-> costIndexKey(build[p]), entries |-> entries[p]]
        over(old) == IF old = Broken THEN {doc} ELSE {doc, Broken}
    IN  /\ phase[p] = "write"
        /\ \/ handle[p] = "tmp" /\ tmp' \in over(tmp) /\ UNCHANGED index
           \/ handle[p] = "index" /\ index' \in over(index) /\ UNCHANGED tmp
           \/ handle[p] = "gone" /\ UNCHANGED <<tmp, index>>
        /\ handle' = [handle EXCEPT ![p] = None]
        /\ phase' = [phase EXCEPT ![p] = "rename"]
        /\ UNCHANGED <<size, installed, document, build, table, entries, dirty,
                       cold, read, units, unreadable, runs, since, raced, changed>>

\* Who still writes follows the file.
Moved(h) == IF h = "tmp" THEN "index" ELSE IF h = "index" THEN "gone" ELSE h

\* ... and renames it; a rename that fails costs a note.
saveRename(p) ==
    /\ phase[p] = "rename"
    /\ IF tmp = Missing THEN UNCHANGED <<index, tmp, handle>>
       ELSE /\ index' = tmp /\ tmp' = Missing
            /\ handle' = [q \in Proc |-> Moved(handle[q])]
    /\ phase' = [phase EXCEPT ![p] = "done"]
    /\ UNCHANGED <<size, installed, document, build, table, entries, dirty, cold,
                   read, units, unreadable, runs, since, raced, changed>>

\* The process is interrupted.
Killed(p) ==
    /\ phase[p] \in {"write", "rename"}
    /\ phase' = [phase EXCEPT ![p] = "idle"]
    /\ handle' = [handle EXCEPT ![p] = None]
    /\ UNCHANGED <<files, build, table, entries, dirty, cold, read, units, unreadable,
                   runs, since, raced, changed>>

World ==
    /\ events < MaxEvents /\ events' = events + 1
    /\ \/ \E f \in File : Grow(f)
       \/ \E b \in Build : Upgrade(b)
       \/ \E d \in Document \cup {Torn} : updateRules(d)

Run(p) ==
    \/ Start(p)
    \/ \E f \in File : loadSession(p, f)
    \/ Visit(p) \/ PrintOnly(p) \/ saveOpen(p) \/ saveWrite(p) \/ saveRename(p)
    \/ Killed(p)

Next == World \/ (\E p \in Proc : Run(p) /\ UNCHANGED events)

Spec == Init /\ [][Next]_vars

-----------------------------------------------------------------------------
(* Properties.                                                                *)

TypeOK ==
    /\ \A f \in File : size[f] \in 0..Len(Log[f])
    /\ installed \in Build /\ document \in Document \cup {NoDocument, Torn}
    /\ \A p \in Proc :
          /\ phase[p] \in {"idle", "walk", "write", "rename", "done"}
          /\ build[p] \in Build /\ table[p] \in Build \cup Document
          /\ DOMAIN entries[p] \subseteq File /\ DOMAIN read[p] \subseteq File
          /\ handle[p] \in {None, "tmp", "index", "gone"}
    /\ runs \in 0..MaxRuns /\ raced \subseteq File /\ changed \in BOOLEAN

\* What the report should say of the lengths it is about, from all requests at
\* once and in no order.
Reference(us, bad) ==
    LET all == UNION {{<<k, i>> : i \in 1..us[k].of} : k \in DOMAIN us}
        rec(x) == Log[us[x[1]].file][x[2]]
        rate(x) == Price[us[x[1]].under][rec(x).model]
        session(k) == SessionOf[us[k].file]
        flagged == {k \in DOMAIN us : rate(<<k, 1>>) = 0}
        pricedSessions == {session(k) : k \in DOMAIN us \ flagged}
        lanes == {k \in DOMAIN us : session(k) \in pricedSessions}
        once == {x \in all : x[2] \in Counted(us[x[1]].file, us[x[1]].of)}
        inPriced == {x \in all : x[1] \in lanes}
        covered == {x \in inPriced : rate(x) > 0}
        deficit(x) == rec(x).deficit
        mixed == {k \in DOMAIN us :
                      \E x, y \in once : /\ x[1] = k /\ y[1] = k
                                         /\ {rec(x).epoch, rec(y).epoch} \cap {""} = {}
                                         /\ rec(x).epoch # rec(y).epoch}
        named == {x \in all : rec(x).id # ""}
        measured == {x \in named : rec(x).measured}
        ids == {rec(x).id : x \in measured}
    IN  [summary |->
           [Tasks |-> Cardinality(pricedSessions),
            Lanes |-> Cardinality(lanes),
            PricedRequests |-> Cardinality({x \in once : rate(x) > 0}),
            UnpricedRequests |-> Cardinality({x \in once : rate(x) = 0}),
            TotalUSD |-> SumOver(once \cap inPriced, rate),
            RebilledUSD |-> SumOver(covered, LAMBDA x : deficit(x) * rate(x)),
            RebilledTokens |-> SumOver(all, deficit),
            UnpricedRebilledTokens |-> SumOver(all \ covered, deficit),
            MixedEpochSessions |-> Cardinality({session(k) : k \in mixed})],
         join |-> [total |-> Cardinality(named),
                   unjoinable |-> Cardinality(named \ measured),
                   duplicated |-> Cardinality(measured) - Cardinality(ids),
                   seen |-> ids],
         unpriced |-> Cardinality(flagged),
         unreadable |-> bad]

\* Whatever came out of the index and whatever was read, in whichever order:
\* the report counts every transcript once, its dollars and the tokens they do
\* not cover add up to all re-billed tokens, and the overlap it discloses is
\* that of the requests (foldSessions, summarise, requestJoin).
ReportIsTheSum ==
    \A p \in Proc : phase[p] = "done" =>
        /\ Report(units[p], unreadable[p]) = Reference(units[p], unreadable[p])
        /\ Len(units[p]) + unreadable[p] = Len(Path)
        /\ IsInjective([k \in DOMAIN units[p] |-> units[p][k].file])

\* A report is not older than its run: what it says of a transcript was true of
\* it at some moment after the files were listed, under the prices in effect,
\* whatever processes, upgrades and kills came before.  Excepted are transcripts
\* that grew between a process's read and its put, and indexes older than an
\* installed document (costCache.load, get, put, save).
ReportIsCurrent ==
    \A p \in Proc : phase[p] = "done" =>
        \A k \in DOMAIN units[p] :
            LET u == units[p][k]
            IN  /\ u.file \notin raced => u.of >= since[p][u.file]
                /\ ~ changed => u.under = table[p]

\* The index never returns a figure under the header of rules it was not
\* computed under (costcache.go: the index is keyed on everything the figure
\* depends on).
FiguresMatchTheirRules ==
    \A p \in Proc : phase[p] = "done" =>
        \A k \in DOMAIN units[p] : units[p][k].under = table[p]

=============================================================================
