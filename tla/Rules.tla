-------------------------------- MODULE Rules --------------------------------
(***************************************************************************)
(* The rules document every dollar figure comes from: how it is fetched,   *)
(* refused and installed (cmd/replay/rules.go), what a command loads of it *)
(* at its start (LoadInstalledRules), how a request is priced under it     *)
(* (internal/cachemodel/rules.go, priceat_prod.go, anthropic.go), the      *)
(* digest that names the numbers (pricingdigest.go), and the claims that   *)
(* `replay rules --measure` makes from the ledger about the provider's     *)
(* caching floors (measure.go, claim.go, internal/ledger/evidence.go).     *)
(*                                                                         *)
(* Commands run at once and a proxy is one that runs for long; binaries    *)
(* are replaced, the file is edited by hand, and a write can be cut short. *)
(* Documents carry three fields the program does not have: the hops they   *)
(* really came over, who made them, and of which build's table, if any.    *)
(***************************************************************************)
EXTENDS Integers, Sequences, FiniteSets

CONSTANTS
    Invocation,     \* commands that may run at once
    Name,           \* model ids of requests
    Match,          \* match strings of rows
    OccursIn,       \* OccursIn[m]: the ids that m is a part of, case folded
    OtherVersion,   \* OtherVersion[m]: those where each occurrence goes on with a version
    Foreign, Astra, \* ids of no Anthropic family, and of OpenAI's Astra tier
    Release,        \* builds of the program
    ModelTable,     \* ModelTable[b]: the compiled rows of build b, in order
    Standard,       \* ReadMultiplier, in per cent; WriteMultiplierShort is 125
    StandardPrefix, \* minPrefixStandard
    Host, Label,    \* names of servers, and of the documents they publish
    Feeds,          \* what a person may name: [hops, answer]
    MaxHops,        \* redirects that are followed, plus one
    HandMade,       \* documents a person may write into the file
    Databases,      \* answers of the independent price database
    LedgerSession,  \* ledger files
    Prompt,         \* sizes of prompts, in tokens
    RealFloor,      \* RealFloor[id]: the prefix from which the provider caches
    StaleAfter,     \* rulesStaleAfter, in days
    MaxDay, MaxServed

Unset == -1         \* a field that is absent
Unreadable == -2    \* a date no layout parses

NoClaim == [of |-> "none"]
Claims ==
    [of : {"claim"}, model : Name, documented : Int, upper : Int, lower : Int,
     declared : BOOLEAN]
Rows ==
    [match : Match \cup {"blank"}, provider : {"none", "named"}, prefix : Int,
     price : Int, read : Int, priced : BOOLEAN, from : Int, until : Int,
     claim : Claims \cup {NoClaim}]
Hops == [scheme : {"https", "http", "file"}, host : Host \cup {"local", "pricing"}]
Documents ==
    [is : {"document"}, schema : BOOLEAN, version : Label \cup {"blank", "compiled", "measured"},
     provider : {"none", "named"}, discount : Int, rows : Seq(Rows), source : Hops, fetched : Int,
     hops : Seq(Hops), maker : {"feed", "measure", "hand"}, table : Release \cup {0}]

\* A row of the compiled table has no window, and no other provider's id matches.
compiled(r) ==
    /\ r.match \in Match /\ OccursIn[r.match] \cap Foreign = {}
    /\ r.from = Unset /\ r.until = Unset /\ r.provider = "none" /\ r.claim = NoClaim
    /\ r.prefix >= 0 /\ r.price >= 0 /\ r.read \in 0..100
    /\ r.priced => r.price # 0

\* What is at the path of rules.json, and what a server may answer instead.
NoDocument == [is |-> "none"]
Emptied == [is |-> "empty"]
Garbled == [is |-> "garbled"]
Answers == Documents \cup {Garbled, [is |-> "payment"], [is |-> "status"]}

ASSUME RulesAssumption ==
    /\ "blank" \notin Match
    /\ OccursIn \in [Match -> SUBSET Name] /\ OtherVersion \in [Match -> SUBSET Name]
    /\ 1 \in Release /\ 0 \notin Release
    /\ ModelTable \in [Release -> Seq(Rows)]
    /\ \A b \in Release :
          /\ ModelTable[b] # <<>>
          /\ \A i \in DOMAIN ModelTable[b] : compiled(ModelTable[b][i])
    /\ Standard \in 1..100 /\ StandardPrefix \in Nat
    /\ \A c \in Feeds :
          /\ c.hops \in Seq(Hops) /\ c.hops # <<>> /\ c.answer \in Answers
          /\ c.hops[1].scheme = "file" => Len(c.hops) = 1
          /\ c.answer.is = "document" => c.answer.maker = "feed" /\ c.answer.table = 0
    /\ HandMade \subseteq Documents /\ \A d \in HandMade : d.maker = "hand" /\ d.table = 0
    /\ RealFloor \in [Name -> Nat \ {0}] /\ Prompt \subseteq Nat
    /\ StaleAfter \in Nat /\ MaxDay \in Nat \ {0} /\ MaxHops \in Nat /\ MaxServed \in Nat

-----------------------------------------------------------------------------
(* A row's window: inclusive, in days.                                     *)
window(r) == r.from # Unreadable /\ r.until # Unreadable

windowContains(r, t) ==
    /\ window(r)
    /\ r.from # Unset => t >= r.from
    /\ r.until # Unset => t <= r.until

dated(r) == r.from # Unset \/ r.until # Unset

windowsOverlap(r, s) ==
    /\ ~(r.until # Unset /\ s.from # Unset /\ r.until < s.from)
    /\ ~(s.until # Unset /\ r.from # Unset /\ s.until < r.from)

claimIsValid(c) ==
    \/ c = NoClaim
    \/ /\ ~c.declared /\ c.documented >= 0
       /\ c.lower # Unset /\ c.upper # Unset => c.lower <= c.upper

rowIsValid(r) ==
    /\ dated(r) => window(r) /\ ~(r.from # Unset /\ r.until # Unset /\ r.until < r.from)
    /\ r.match # "blank" /\ r.prefix >= 0 /\ r.price >= 0 /\ r.read \in 0..100
    /\ r.priced => r.price # 0 /\ r.read # 0
    /\ claimIsValid(r.claim)

\* Some rows name their publisher, some do not, and the document has no default.
unattributed(d) ==
    /\ d.provider = "none"
    /\ \E i, j \in DOMAIN d.rows : d.rows[i].provider = "none" /\ d.rows[j].provider # "none"

validate(d) ==
    /\ d.is = "document"
    /\ d.schema /\ d.version # "blank" /\ d.rows # <<>>
    /\ ~unattributed(d)
    /\ d.discount \in 0..99
    /\ \A i \in DOMAIN d.rows : rowIsValid(d.rows[i])
    /\ \A i, j \in DOMAIN d.rows :
          /\ i < j /\ dated(d.rows[i]) /\ dated(d.rows[j])
          /\ d.rows[i].match = d.rows[j].match
          => ~windowsOverlap(d.rows[i], d.rows[j])

\* A missing file and one that is refused both leave the compiled table.
LoadRules(f) == IF validate(f) THEN f ELSE NoDocument

-----------------------------------------------------------------------------
(* Prices, in hundredths so that a discount of so many per cent is whole.  *)
matchesModel(id, m) == m \in Match /\ id \in OccursIn[m] \ OtherVersion[m]

first(S) == CHOOSE i \in S : \A j \in S : i <= j

Quoted(price, read, priced) == [price |-> price, read |-> read, priced |-> priced]
NoPrice == Quoted(0, 0, FALSE)

Matching(rows, id) == {i \in DOMAIN rows : matchesModel(id, rows[i].match)}

\* The compiled table gives a row without a multiple the standard one, which is
\* also what a model it does not know reads at.
unknownModel == [prefix |-> StandardPrefix, price |-> 0, read |-> Standard, priced |-> FALSE]
lookup(b, id) ==
    LET table == ModelTable[b]
        row == table[first(Matching(table, id))]
    IN  IF Matching(table, id) = {} THEN unknownModel
        ELSE [row EXCEPT !.read = IF @ = 0 THEN Standard ELSE @]

ListPrice(r) == Quoted(100 * r.price, r.read, r.priced)
applyDiscount(d, r) ==
    Quoted(r.price * (IF d.discount \in 1..99 THEN d.discount ELSE 100), r.read, r.priced)

activeRow(d, id) == d.rows[first(Matching(d.rows, id))]
HasActiveRow(d, id) == d # NoDocument /\ Matching(d.rows, id) # {}

PriceFor(b, d, id) ==
    IF HasActiveRow(d, id) THEN applyDiscount(d, activeRow(d, id)) ELSE ListPrice(lookup(b, id))

InForce(d, id, t) == {i \in Matching(d.rows, id) : windowContains(d.rows[i], t)}
Promotions(d, id, t) == {i \in InForce(d, id, t) : dated(d.rows[i])}

PriceAt(d, id, t) ==
    LET dates == Promotions(d, id, t)
        rows == InForce(d, id, t)
    IN  IF dates # {} THEN applyDiscount(d, d.rows[first(dates)])
        ELSE IF rows # {} THEN applyDiscount(d, d.rows[first(rows)])
        ELSE NoPrice

\* Instant 0 is a request whose time was not recorded.
PriceForAt(b, d, id, t) ==
    LET inForce == PriceAt(d, id, t)
    IN  IF t = 0 \/ d = NoDocument THEN PriceFor(b, d, id)
        ELSE IF inForce.priced THEN inForce ELSE ListPrice(lookup(b, id))

MinCacheablePrefix(b, d, id) ==
    IF HasActiveRow(d, id) THEN activeRow(d, id).prefix ELSE lookup(b, id).prefix

ReadMultiplierFor(b, d, id) ==
    IF HasActiveRow(d, id) /\ activeRow(d, id).read > 0 THEN activeRow(d, id).read
    ELSE lookup(b, id).read

unpriceable(d, id) == ~HasActiveRow(d, id) /\ id \in Foreign

\* All a report takes from the rules.
Figures(b, d, id, t) ==
    <<PriceForAt(b, d, id, t), MinCacheablePrefix(b, d, id), ReadMultiplierFor(b, d, id),
      unpriceable(d, id)>>

\* PricingDigest covers the compiled rows, then the document: its version, its
\* discount and every field of a row but the claim.
writeRow(r) == [r EXCEPT !.claim = NoClaim]
writeOverride(d) ==
    IF d = NoDocument THEN <<"none">>
    ELSE <<d.version, d.discount, [i \in DOMAIN d.rows |-> writeRow(d.rows[i])]>>
PricingDigest(b, d) == <<ModelTable[b], unknownModel, writeOverride(d)>>

-----------------------------------------------------------------------------
(* ExportRules: the compiled table as a document, with what it behaves as. *)
local == [scheme |-> "file", host |-> "local"]
ExportRules(b) ==
    [is |-> "document", schema |-> TRUE, version |-> "compiled", provider |-> "named",
     discount |-> 0,
     rows |-> [i \in DOMAIN ModelTable[b] |->
                  [ModelTable[b][i] EXCEPT !.read = IF @ = 0 THEN Standard ELSE @]],
     source |-> [scheme |-> "https", host |-> "pricing"], fetched |-> 1,
     hops |-> <<local>>, maker |-> "feed", table |-> b]

\* Where the measured figure is compared: by containment, not by matchesModel.
DocumentedMinPrefix(b, d, id) ==
    LET table == ModelTable[b]
        named == {i \in DOMAIN table : id \in OccursIn[table[i].match]}
    IN  IF HasActiveRow(d, id) THEN activeRow(d, id).prefix
        ELSE IF named = {} THEN 0
        ELSE table[first(named)].prefix

\* A plausible slip: every write that was served measures the floor.
warmTestifies(r) == r.served /\ r.created > 0

\* EvidenceFrom: only a cold write that was served measures the floor.
Testifies(r) == r.served /\ r.created > 0 /\ r.read = 0
EvidenceFrom(records) ==
    {[model |-> r.model, prefix |-> r.created] : r \in {q \in records : Testifies(q)}}

MeasuredModels(evidence) == {e.model : e \in evidence}
MeasureClaims(b, d, evidence, id) ==
    [of |-> "claim", model |-> id, documented |-> DocumentedMinPrefix(b, d, id),
     upper |-> first({e.prefix : e \in {f \in evidence : f.model = id}}),
     lower |-> Unset, declared |-> FALSE]

\* measureRules attaches to each row the claim of the first model it occurs in.
MeasuredRules(b, d, evidence, day) ==
    LET claimOf(r) ==
            LET covered == MeasuredModels(evidence) \cap OccursIn[r.match]
            IN  IF covered = {} THEN NoClaim
                ELSE MeasureClaims(b, d, evidence, CHOOSE id \in covered : TRUE)
    IN  [ExportRules(b) EXCEPT
            !.version = "measured", !.source = local, !.fetched = day, !.maker = "measure",
            !.rows = [i \in DOMAIN ModelTable[b] |->
                         [ExportRules(b).rows[i] EXCEPT !.claim = claimOf(ModelTable[b][i])]]]

Status(c) ==
    IF (c.upper = Unset /\ c.lower = Unset) \/ c.documented = 0 THEN "untested"
    ELSE IF (c.upper # Unset /\ c.documented > c.upper)
            \/ (c.lower # Unset /\ c.documented <= c.lower) THEN "contradicted"
    ELSE IF c.upper # Unset /\ c.lower # Unset THEN "consistent"
    ELSE "unverified"

-----------------------------------------------------------------------------
(* The independent database: entries [model, bare, own, whole, price, read, *)
(* write], of which the bare names of the provider's own that carry both   *)
(* prices are compared; an absent cache price is Unset.                    *)
ParseLiteLLMPrices(db) == {e \in db : e.whole /\ e.own /\ e.bare}

Fields == {"input", "read", "write"}
Ours(r, f) ==
    CASE f = "input" -> 100 * r.price [] f = "read" -> r.price * r.read [] OTHER -> r.price * 125
Theirs(e, f) == CASE f = "input" -> e.price [] f = "read" -> e.read [] OTHER -> e.write

CheckPrices(b, db) ==
    LET table == ModelTable[b]
        priced == {i \in DOMAIN table : table[i].priced}
        obs == ParseLiteLLMPrices(db)
        named == {i \in priced : \E e \in obs : e.model = table[i].match}
    IN  [compared |-> named,
         unmatched |-> priced \ named,
         disagreements |->
            {q \in named \X Fields :
                \E e \in obs : /\ e.model = table[q[1]].match /\ Theirs(e, q[2]) # Unset
                               /\ Ours(table[q[1]], q[2]) # Theirs(e, q[2])}]

\* rulesAge and rulesNotice: what `replay doctor` says of the table in force.
rulesAge(d, t) ==
    IF d = NoDocument THEN "built in"
    ELSE IF d.fetched = Unset THEN "built in"
    ELSE IF d.fetched = Unreadable THEN "undated"
    ELSE IF t - d.fetched < StaleAfter THEN "current" ELSE "stale"

\* Under whose rules a break of the cache is classified, and whose a report names.
RulesForModel(id) ==
    IF id \in Astra THEN "astra" ELSE IF id \in Foreign THEN "none" ELSE "anthropic"
RulesLabel(models) ==
    LET none == (models \cap Foreign) \ Astra
        anthropic == models \ (Foreign \cup Astra)
    IN  (IF anthropic # {} \/ (models \cap Astra = {} /\ none = {}) THEN {"anthropic"} ELSE {})
        \cup (IF models \cap Astra # {} THEN {"astra"} ELSE {})
        \cup (IF none # {} THEN {"none"} ELSE {})

\* Lifetimes in minutes.  Of a usage: whether anything was read, and whether
\* entries of an hour and of five minutes were written.
TTLShort == 5
TTLLong == 60
TTLAstra == 30
MinPrefixAstra == 1024
Usages == [read : BOOLEAN, long : BOOLEAN, short : BOOLEAN]

TTLOf(u) == IF u.long /\ ~u.short THEN TTLLong ELSE TTLShort
ttlFor(rules, u) == IF rules = "astra" THEN TTLAstra ELSE TTLOf(u)
floorOf(rules) == IF rules = "astra" THEN MinPrefixAstra ELSE 0

ClassifyBreakWith(rules, prev, cur, from, to, gap, prefix) ==
    IF prefix > 0 /\ prefix < floorOf(rules) THEN "below the floor"
    ELSE IF gap > ttlFor(rules, prev) THEN "expired"
    ELSE IF from # to THEN "model"
    ELSE IF ~cur.read THEN "prefix" ELSE "history"

\* No caller knows the size of the prefix, so none of them meets the floor.
ClassifyBreakForModel(prev, cur, from, to, gap) ==
    IF RulesForModel(from) # "none"
    THEN ClassifyBreakWith(RulesForModel(from), prev, cur, from, to, gap, 0)
    ELSE IF from # to THEN "model"
    ELSE IF ~cur.read THEN "no rules" ELSE "history"

-----------------------------------------------------------------------------
VARIABLES
    rulesFile,  \* what is at ~/.replay/rules.json
    running,    \* what each command is doing
    shipped,    \* the build that is installed
    day,        \* the calendar
    served,     \* served[s]: the records of a ledger file
    measured,   \* the document `rules --measure` last wrote to a file
    said        \* what an update said it installed, while nobody else writes

rulesVars == <<rulesFile, running, shipped, day, served, measured, said>>

task(step, build, over) ==
    [step |-> step, build |-> build, over |-> over, got |-> NoDocument,
     db |-> {}, unread |-> {}, evidence |-> {}]
None == task("none", 1, NoDocument)
Step(p) == running[p].step
Goes(p, changes) == running' = [running EXCEPT ![p] = changes]

\* The commands' start: main calls LoadInstalledRules before anything else.
Started(step) == task(step, shipped, LoadRules(rulesFile))

RulesInit ==
    /\ rulesFile = NoDocument /\ measured = NoDocument /\ said = NoDocument
    /\ running = [p \in Invocation |-> None]
    /\ shipped = 1 /\ day = 1
    /\ served = [s \in LedgerSession |-> {}]

\* A report, or a proxy: it prices under what it loaded for as long as it runs.
StartReport(p) ==
    /\ Step(p) = "none" /\ Goes(p, Started("reports"))
    /\ UNCHANGED <<rulesFile, shipped, day, served, measured, said>>

\* fetchRules follows redirects while every hop is https.
Refused(c) ==
    \/ c.hops[1].scheme = "http"
    \/ c.hops[1].scheme = "https" /\ \E i \in DOMAIN c.hops : c.hops[i].scheme # "https"
    \/ Len(c.hops) > MaxHops

fromFile(d) == [hops |-> <<local>>, answer |-> d]
Sources ==
    Feeds \cup {fromFile(ExportRules(shipped))}
          \cup (IF measured = NoDocument THEN {} ELSE {fromFile(measured)})

stamped(d, hops, t) ==
    [d EXCEPT !.source = hops[Len(hops)], !.fetched = t, !.hops = hops]

\* updateRules up to LoadRules of the temporary file: what came is named for
\* the hop it came from and dated today.  A 402 is explained and ends the run.
StartUpdate(p, c) ==
    /\ Step(p) = "none" /\ c \in Sources
    /\ Goes(p, IF Refused(c) \/ ~validate(c.answer)
               THEN Started("ends")
               ELSE [Started("fetched") EXCEPT !.got = stamped(c.answer, c.hops, day)])
    /\ UNCHANGED <<rulesFile, shipped, day, served, measured, said>>

\* os.WriteFile truncates, then writes.
Open(p) ==
    /\ Step(p) = "fetched"
    /\ Goes(p, [running[p] EXCEPT !.step = "writes"])
    /\ rulesFile' = Emptied /\ said' = NoDocument
    /\ UNCHANGED <<shipped, day, served, measured>>

\* Over a longer document of another command's, the tail of that one stays.
Write(p, f) ==
    /\ Step(p) = "writes"
    /\ f \in IF rulesFile = Emptied THEN {running[p].got} ELSE {running[p].got, Garbled}
    /\ rulesFile' = f
    /\ said' = IF rulesFile = Emptied /\ \A q \in Invocation \ {p} : Step(q) # "writes"
               THEN running[p].got ELSE NoDocument
    /\ Goes(p, None)
    /\ UNCHANGED <<shipped, day, served, measured>>

\* The command is killed, or its disk is full, in the middle of the write.
WriteFails(p) ==
    /\ Step(p) = "writes"
    /\ rulesFile' = Garbled /\ said' = NoDocument
    /\ Goes(p, None)
    /\ UNCHANGED <<shipped, day, served, measured>>

\* A command ends, is killed, or was a --dry-run.
End(p) ==
    /\ Step(p) # "none" /\ Goes(p, None)
    /\ UNCHANGED <<rulesFile, shipped, day, served, measured, said>>

\* describeRules loads the file again and prints its claims.
Describe(p) ==
    /\ Step(p) = "none"
    /\ Goes(p, [Started("describes") EXCEPT !.got = LoadRules(rulesFile)])
    /\ UNCHANGED <<rulesFile, shipped, day, served, measured, said>>

runCheckPrices(p) ==
    /\ Step(p) = "none"
    /\ \E db \in Databases : Goes(p, [Started("checks") EXCEPT !.db = db])
    /\ UNCHANGED <<rulesFile, shipped, day, served, measured, said>>

\* measureRules lists the directory, reads file by file while the proxy appends
\* to them, and skips a file it cannot read.
StartMeasure(p) ==
    /\ Step(p) = "none"
    /\ Goes(p, [Started("measures") EXCEPT
                   !.unread = {s \in LedgerSession : served[s] # {}}])
    /\ UNCHANGED <<rulesFile, shipped, day, served, measured, said>>

ReadRecords(p, s) ==
    /\ Step(p) = "measures" /\ s \in running[p].unread
    /\ \E evidence \in {{}, EvidenceFrom(served[s])} :
          Goes(p, [running[p] EXCEPT !.unread = @ \ {s}, !.evidence = @ \cup evidence])
    /\ UNCHANGED <<rulesFile, shipped, day, served, measured, said>>

measureRules(p) ==
    /\ Step(p) = "measures" /\ running[p].unread = {} /\ running[p].evidence # {}
    /\ measured' = MeasuredRules(running[p].build, running[p].over, running[p].evidence, day)
    /\ Goes(p, None)
    /\ UNCHANGED <<rulesFile, shipped, day, served, said>>

-----------------------------------------------------------------------------
\* A request of a session: cold, on top of an entry, or not served.
Record(id, ok, created, read) ==
    [model |-> id, served |-> ok, created |-> created, read |-> read]
Serve(s, id, n) ==
    /\ \E r \in {Record(id, TRUE, IF n >= RealFloor[id] THEN n ELSE 0, 0), Record(id, FALSE, n, 0)}
                \cup {Record(id, TRUE, n - (q.created + q.read), q.created + q.read) :
                         q \in {q \in served[s] : q.model = id /\ q.served /\ q.created > 0
                                                  /\ q.created + q.read < n}} :
          served' = [served EXCEPT ![s] = @ \cup {r}]
    /\ UNCHANGED <<rulesFile, running, shipped, day, measured, said>>

\* A person edits the file, or removes it, while no command is writing it.
HandEdit ==
    /\ \A p \in Invocation : Step(p) # "writes"
    /\ rulesFile' \in HandMade \cup {NoDocument} /\ said' = NoDocument
    /\ UNCHANGED <<running, shipped, day, served, measured>>

NewRelease ==
    /\ shipped' \in Release
    /\ UNCHANGED <<rulesFile, running, day, served, measured, said>>

NextDay ==
    /\ day < MaxDay /\ day' = day + 1
    /\ UNCHANGED <<rulesFile, running, shipped, served, measured, said>>

RulesNext ==
    \/ \E p \in Invocation :
          \/ StartReport(p) \/ Open(p) \/ WriteFails(p) \/ End(p)
          \/ Describe(p) \/ runCheckPrices(p) \/ StartMeasure(p) \/ measureRules(p)
          \/ \E c \in Sources : StartUpdate(p, c)
          \/ \E f \in {running[p].got, Garbled} : Write(p, f)
          \/ \E s \in LedgerSession : ReadRecords(p, s)
    \/ \E s \in LedgerSession, id \in Name, n \in Prompt : Serve(s, id, n)
    \/ HandEdit \/ NewRelease \/ NextDay

RulesSpec == RulesInit /\ [][RulesNext]_rulesVars

-----------------------------------------------------------------------------
Reports == {p \in Invocation : Step(p) = "reports"}
Carried == {rulesFile, measured} \cup {running[p].over : p \in Invocation}
                                 \cup {running[p].got : p \in Invocation}

\* What `replay rules --update` said it installed is what the file holds, and
\* every later command loads it: no run that failed, was refused or was killed
\* before it opened the file has touched it.
InstalledIsKept == said # NoDocument => rulesFile = said /\ LoadRules(rulesFile) = said

\* A document names the hop its bytes really came from, and none of them came in
\* the clear, whatever redirects there were; and it is never taken for the
\* compiled table or for one without a date.
CameAsItSays ==
    \A d \in Carried :
        d.is = "document" /\ d.maker # "hand" =>
            /\ d.source = d.hops[Len(d.hops)]
            /\ \A i \in DOMAIN d.hops : d.hops[i].scheme # "http"
            /\ rulesAge(d, day) \in {"current", "stale"}

\* Two reports with one digest took the same figures from the rules, whichever
\* builds and documents they ran under (#284).
DigestTellsApart ==
    \A p, q \in Reports :
        /\ p # q
        /\ PricingDigest(running[p].build, running[p].over)
              = PricingDigest(running[q].build, running[q].over)
        => \A id \in Name, t \in 0..MaxDay :
              Figures(running[p].build, running[p].over, id, t)
                  = Figures(running[q].build, running[q].over, id, t)

\* A request is priced by what was in force when it was made: by the promotion if
\* there is one, wherever it stands in the file, and never by a row whose window
\* does not hold it.
PricedInItsTime ==
    \A p \in Reports, id \in Name, t \in 1..MaxDay :
        LET b == running[p].build
            d == running[p].over
            quote == PriceForAt(b, d, id, t)
            of(i) == applyDiscount(d, d.rows[i])
        IN  d # NoDocument =>
            /\ \A i \in Promotions(d, id, t) :
                  /\ d.rows[i].priced
                  /\ \A j \in Promotions(d, id, t) : d.rows[j].match = d.rows[i].match
                  => quote = of(i)
            /\ quote = ListPrice(lookup(b, id)) \/ \E i \in InForce(d, id, t) : quote = of(i)

\* The free tier is complete: under what --export or --measure wrote, a build
\* reports as it does under its own table.
ExportIsComplete ==
    \A p \in Reports, id \in Name, t \in 0..MaxDay :
        LET b == running[p].build
            d == running[p].over
        IN  d # NoDocument /\ d.table = b => Figures(b, d, id, t) = Figures(b, NoDocument, id, t)

\* A claim measured from the ledger bounds the floor the provider really has, so
\* a figure it calls contradicted is one the provider does not keep to.
ClaimsAreReal ==
    \A d \in Carried :
        d.is = "document" /\ d.maker = "measure" =>
            \A i \in DOMAIN d.rows :
                LET c == d.rows[i].claim
                IN  c # NoClaim =>
                    /\ RealFloor[c.model] <= c.upper
                    /\ Status(c) = "contradicted" => RealFloor[c.model] < c.documented

\* --check-prices: every priced row is compared or named as unchecked, what is
\* compared and not reported agrees, and no reseller's price or absent price is
\* reported as a disagreement.
CheckIsHonest ==
    \A p \in Invocation : Step(p) = "checks" =>
        LET b == running[p].build
            res == CheckPrices(b, running[p].db)
            own(i) == {e \in running[p].db : /\ e.whole /\ e.own /\ e.bare
                                             /\ e.model = ModelTable[b][i].match}
            differs(i, f) == \E e \in own(i) : Theirs(e, f) \notin {Unset, Ours(ModelTable[b][i], f)}
        IN  \A i \in DOMAIN ModelTable[b], f \in Fields :
                ModelTable[b][i].priced =>
                    /\ i \in res.unmatched <=> own(i) = {}
                    /\ <<i, f>> \in res.disagreements <=> differs(i, f)

\* A report names the rules that each of its models' breaks was classified under.
LabelNamesRules ==
    \A models \in SUBSET Name :
        models # {} => RulesLabel(models) = {RulesForModel(id) : id \in models}

\* A break is laid to an expiry only if an entry of the request before is past the
\* lifetime its own provider sold it for, to the prefix only if none is, and in
\* both cases the report names that provider's rules; where it has none, it says so.
Gaps == {TTLShort, TTLShort + 1, TTLAstra, TTLAstra + 1, TTLLong, TTLLong + 1}
Lifetimes(id, u) ==
    IF id \in Astra THEN {TTLAstra}
    ELSE (IF u.long THEN {TTLLong} ELSE {}) \cup (IF u.short \/ ~u.long THEN {TTLShort} ELSE {})
BreaksAreJudged ==
    \A models \in SUBSET Name :
        \A from, to \in models, prev, cur \in Usages, gap \in Gaps :
            LET cause == ClassifyBreakForModel(prev, cur, from, to, gap)
            IN  /\ cause = "expired" => \E l \in Lifetimes(from, prev) : gap > l
                /\ cause = "prefix" => \A l \in Lifetimes(from, prev) : gap <= l
                /\ cause \in {"expired", "prefix"} => RulesForModel(from) \in RulesLabel(models) \ {"none"}
                /\ cause = "no rules" => "none" \in RulesLabel(models)

\* The rules document: installed as said, from where it says, priced in its time,
\* named by its digest, complete as exported, and honest in what it claims and blames.
RulesAreTrue ==
    /\ InstalledIsKept /\ CameAsItSays
    /\ DigestTellsApart /\ PricedInItsTime /\ ExportIsComplete
    /\ ClaimsAreReal /\ CheckIsHonest /\ LabelNamesRules /\ BreaksAreJudged

=============================================================================
