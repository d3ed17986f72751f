------------------------------- MODULE Series -------------------------------
(***************************************************************************)
(* `replay probe` (cmd/replay/probe.go): what it asks before it spends, the *)
(* run it pays for (Runner.Run and Runner.probe in internal/probe/run.go), *)
(* the experiment that varies one term (vary.go), and the series its       *)
(* readings are appended to (reading.go) and read back from (trend.go).    *)
(* Commands run at once, are killed, and are upgraded between runs; a      *)
(* write can be cut short.                                                 *)
(*                                                                         *)
(* Which size the search proposes is ProbeSearch's matter: here it is any  *)
(* size inside the bracket, and one answer decides.  The provider is       *)
(* external: a model is answered for by one of several snapshots, tiers or *)
(* geographies, each with a floor of its own, and a floor may move.        *)
(***************************************************************************)
EXTENDS Integers, Sequences, FiniteSets

CONSTANTS
    Proc,           \* commands that may run at once
    Model,          \* models asked for
    Served,         \* snapshots, tiers and geographies that may answer
    Floors,         \* floors a provider may have
    Ranges,         \* <<--min, --max>> of a run
    Allowances,     \* --max-probes, 0 for none
    Miss,           \* how far a prefix that is built may miss the size asked for
    Width,          \* --resolution
    Method, Bias,   \* versions of the instrument and how far each misreads a size
    VarySize,       \* the prefix of the experiment, in tokens
    MaxAge,         \* --max-age
    MaxClock, MaxMoves, MaxLines, MaxSent

ASSUME SeriesAssumption ==
    /\ Floors \subseteq Nat \ {0} /\ Allowances \subseteq Nat
    /\ Ranges \subseteq Nat \X Nat /\ \A r \in Ranges : r[1] < r[2]
    /\ Miss \in Nat /\ Width \in Nat \ {0}
    /\ Bias \in [Method -> Int]
    /\ MaxAge \in Nat /\ MaxClock \in Nat /\ MaxMoves \in Nat /\ MaxLines \in Nat
    /\ MaxSent \in Nat /\ VarySize \in Nat
    /\ Method # {} /\ Model # {} /\ Served # {}

VARIABLES
    job,        \* what each command is doing
    series,     \* the lines of measurements.jsonl
    instrument, \* the MethodVersion of the installed binary
    now,        \* the clock, in the resolution of takenAt
    \* The provider:
    minimum,    \* minimum[m][s]: the floor where s answers for m
    keyed,      \* the varied term is part of the cache key
    moves

seriesVars == <<job, series, instrument, now, minimum, keyed, moves>>
outside == <<instrument, now, minimum, keyed, moves>>

-----------------------------------------------------------------------------
(* A reading carries, beside its fields, what really happened in its run:  *)
(* `saw` is the set of floors that answered.  A line that was cut short    *)
(* has no end, and the next one is written on it.                          *)
CutShort == [line |-> "torn"]
Glued == [line |-> "glued"]
Outcomes == {"clean", "mixed-provenance", "contradicted", "budget-exhausted", "stalled"}
Reading ==
    [line : {"reading"}, takenAt : Nat, method : Method, model : Model, above : Int,
     atMost : Int, outcome : Outcomes, saw : SUBSET Floors, range : Ranges,
     told : {"nothing", "qualified", "floor"}]

Nobody == [at |-> "idle"]
Search ==
    [at : {"probing", "ended"}, model : Model, method : Method, range : Ranges,
     allowed : Allowances, sent : Nat, decided : Nat, lo : Int, hi : Int,
     seen : SUBSET Served, saw : SUBSET Floors, stalled : BOOLEAN, early : BOOLEAN]
Usage == [read : BOOLEAN, wrote : BOOLEAN]
Experiment ==
    [at : {"varying"}, model : Model, used : Seq(Usage), cache : SUBSET {"base", "variant"},
     lost : BOOLEAN]
Stamped == [at : {"stamped"}, reading : Reading]

SeriesInit ==
    /\ job = [p \in Proc |-> Nobody]
    /\ series = <<>>
    /\ instrument \in Method
    /\ now = 0
    /\ minimum \in [Model -> [Served -> Floors]]
    /\ keyed \in BOOLEAN
    /\ moves = 0

is(p, where) == job[p].at = where
becomes(p, j) == job' = [job EXCEPT ![p] = j]
leaves(p) == becomes(p, Nobody)

-----------------------------------------------------------------------------
(* Reading the series back. *)

\* LoadSeries: the lines that parse.
Readings == {i \in DOMAIN series : series[i].line = "reading"}

\* Reading.comparable
comparable(r) == r.outcome = "clean" /\ r.atMost > 0
Comparable == {i \in Readings : comparable(series[i])}

\* byModel: one model's readings in the order of their stamps, and of the file
\* where those are equal.
Before(i, j) ==
    /\ series[i].model = series[j].model
    /\ \/ series[i].takenAt < series[j].takenAt
       \/ series[i].takenAt = series[j].takenAt /\ i < j

disjoint(a, b) == a.atMost <= b.above \/ b.atMost <= a.above

\* Slip: brackets are compared across a change of the instrument.
sameMethodIgnored(a, b) == TRUE

\* Changes: a method break resets the comparison.
sameMethod(a, b) == a.method = b.method

\* Two readings with no comparable one between them.
Adjacent(i, j) ==
    /\ i \in Comparable /\ j \in Comparable /\ Before(i, j)
    /\ ~ \E k \in Comparable : Before(i, k) /\ Before(k, j)

Changes ==
    {ij \in Comparable \X Comparable :
        /\ Adjacent(ij[1], ij[2])
        /\ sameMethod(series[ij[1]], series[ij[2]])
        /\ disjoint(series[ij[1]], series[ij[2]])}

\* RecentReading
Recent(m) ==
    {i \in Comparable :
        /\ series[i].model = m /\ series[i].method = instrument
        /\ series[i].takenAt >= now - MaxAge}

-----------------------------------------------------------------------------
(* The command, up to its first request. *)

\* --max-age: a reading already in the series answers, and nothing is sent.
AnswerFromSeries(p, m) == is(p, "idle") /\ Recent(m) # {} /\ UNCHANGED seriesVars

\* The plan alone, for want of --execute; no key; or confirmSpend, which takes
\* no answer but the word, and the end of input least of all.
PlanOnly(p) == is(p, "idle") /\ UNCHANGED seriesVars

\* Executed and confirmed: the search starts from the range, which is not a
\* measurement.
StartRun(p, m, range, allowed) ==
    /\ is(p, "idle")
    /\ becomes(p, [at |-> "probing", model |-> m, method |-> instrument, range |-> range,
                   allowed |-> allowed, sent |-> 0, lo |-> range[1], hi |-> range[2],
                   decided |-> 0, seen |-> {}, saw |-> {}, stalled |-> FALSE,
                   early |-> FALSE])
    /\ UNCHANGED <<series, outside>>

\* fillerOfChars: the prefix of an experiment was never sent before, so that
\* nothing of it is cached.
StartVary(p, m) ==
    /\ is(p, "idle")
    /\ becomes(p, [at |-> "varying", model |-> m, used |-> <<>>, cache |-> {},
                   lost |-> FALSE])
    /\ UNCHANGED <<series, outside>>

-----------------------------------------------------------------------------
(* The run. *)

Crossed(j) == j.lo >= j.hi
Resolved(j) == j.hi - j.lo <= Width

\* Next and Run each stop at the budget: at that many decisions, or, unless the
\* bracket is narrow enough, at that many requests.
StoppedEarly(j) ==
    /\ ~Crossed(j) /\ ~j.stalled /\ j.allowed > 0
    /\ j.decided >= j.allowed \/ (j.sent >= j.allowed /\ ~Resolved(j))
Asks(j) == ~Crossed(j) /\ ~j.stalled /\ ~StoppedEarly(j) /\ ~Resolved(j)

\* sizedFiller: the prefix nearest to the size asked for that can be built.
sizedFiller(want) == {n \in (want - Miss)..(want + Miss) : n > 0}

MayProbe(p) == is(p, "probing") /\ Asks(job[p]) /\ job[p].sent < MaxSent

\* What the instrument of the run makes of a floor.
reads(j, f) == f + Bias[j.method]

\* Runner.probe and Search.Record: the bound the answer puts on the floor.
probe(p, s, n) ==
    LET j == job[p]
        f == minimum[j.model][s]
        wrote == n >= reads(j, f)
        newLo == IF ~wrote /\ n > j.lo THEN n ELSE j.lo
        newHi == IF wrote /\ n < j.hi THEN n ELSE j.hi
    IN  becomes(p, [j EXCEPT
          !.sent = @ + 1, !.decided = @ + 1,
          !.seen = @ \cup {s}, !.saw = @ \cup {f},
          !.lo = newLo, !.hi = newHi,
          !.stalled = newLo < newHi /\ newLo = j.lo /\ newHi = j.hi])

Probe(p) ==
    /\ MayProbe(p)
    /\ \E s \in Served, want \in (job[p].lo + 1)..(job[p].hi - 1) :
          \E n \in sizedFiller(want) : probe(p, s, n)
    /\ UNCHANGED <<series, outside>>

\* An entry that was there before answered: paid for, and nothing decided.  It
\* returns before what answered is compared, but after it was noted.
ProbeRead(p) ==
    /\ MayProbe(p)
    /\ \E s \in Served : becomes(p, [job[p] EXCEPT !.sent = @ + 1, !.seen = @ \cup {s}])
    /\ UNCHANGED <<series, outside>>

\* The count or the request fails, the status is not 200 or there is no usage:
\* Run hands back the search as it stands, with the error.
ProbeFails(p) ==
    /\ MayProbe(p)
    /\ becomes(p, [job[p] EXCEPT !.sent = @ + 1, !.at = "ended"])
    /\ UNCHANGED <<series, outside>>

\* Next has nothing to ask, or the budget is spent.
RunEnds(p) ==
    /\ is(p, "probing") /\ ~Asks(job[p])
    /\ becomes(p, [job[p] EXCEPT !.at = "ended", !.early = StoppedEarly(job[p])])
    /\ UNCHANGED <<series, outside>>

-----------------------------------------------------------------------------
(* The reading. *)

\* Provenance: more than one snapshot, tier or geography answered.
Mixed(j) == Cardinality(j.seen) > 1

\* ReadingFrom
Outcome(j) ==
    IF Mixed(j) THEN "mixed-provenance"
    ELSE IF Crossed(j) THEN "contradicted"
    ELSE IF j.early THEN "budget-exhausted"
    ELSE IF j.stalled THEN "stalled"
    ELSE "clean"

\* reportProbe and reportProvenance: a floor, a floor with a reservation, or
\* none at all.
Told(j) ==
    IF Crossed(j) THEN "nothing"
    ELSE IF Mixed(j) \/ j.early \/ j.stalled THEN "qualified"
    ELSE "floor"

\* AppendReading, before its write; --record - ends here.
Stamp(p) ==
    LET j == job[p] IN
    /\ is(p, "ended")
    /\ \/ leaves(p)
       \/ becomes(p, [at |-> "stamped", reading |->
            [line |-> "reading", takenAt |-> now, method |-> j.method, model |-> j.model,
             above |-> j.lo, atMost |-> j.hi, outcome |-> Outcome(j), saw |-> j.saw,
             range |-> j.range, told |-> Told(j)]])
    /\ UNCHANGED <<series, outside>>

\* The file ends in a line without an end.
Unfinished == series # <<>> /\ series[Len(series)] = CutShort
WholeLines == IF Unfinished THEN SubSeq(series, 1, Len(series) - 1) ELSE series

\* AppendReading: one write to the end of the file.
AppendReading(p) ==
    /\ is(p, "stamped") /\ Len(series) < MaxLines
    /\ series' = Append(WholeLines, IF Unfinished THEN Glued ELSE job[p].reading)
    /\ leaves(p)
    /\ UNCHANGED outside

\* The disk is full, or the process is killed, part of the way through.
AppendCut(p) ==
    /\ is(p, "stamped") /\ Len(series) < MaxLines
    /\ series' = Append(WholeLines, CutShort)
    /\ leaves(p)
    /\ UNCHANGED outside

Killed(p) == ~is(p, "idle") /\ leaves(p) /\ UNCHANGED <<series, outside>>

-----------------------------------------------------------------------------
(* The experiment: a baseline, the same with one term changed, and the     *)
(* baseline again.                                                         *)

\* What the provider looks a request up by.
KeyOf(variant) == IF variant /\ keyed THEN "variant" ELSE "base"

\* sendVary
sendVary(p, s) ==
    LET j == job[p]
        key == KeyOf(Len(j.used) = 1)
        read == key \in j.cache
        wrote == ~read /\ VarySize >= minimum[j.model][s]
    IN  becomes(p, [j EXCEPT
          !.used = Append(@, [read |-> read, wrote |-> wrote]),
          !.cache = IF wrote THEN @ \cup {key} ELSE @])

SendVary(p) ==
    /\ is(p, "varying") /\ Len(job[p].used) < 3
    /\ \E s \in Served : sendVary(p, s)
    /\ UNCHANGED <<series, outside>>

\* Slip: the control is not looked at.
VerdictUncontrolled(used) ==
    IF used[1].wrote /\ ~used[2].read THEN "in the key" ELSE "not in the key"

\* Vary and the words runProbe puts to it.
Verdict(used) ==
    IF ~used[3].read THEN "inconclusive"
    ELSE IF used[1].wrote /\ ~used[2].read THEN "in the key"
    ELSE "not in the key"

\* The report, after which the command returns; a request that fails ends it
\* without one.
VaryEnds(p) == is(p, "varying") /\ leaves(p) /\ UNCHANGED <<series, outside>>

-----------------------------------------------------------------------------
(* The provider, the clock and the installer. *)

\* An entry leaves the provider's cache.
Evict(p) ==
    /\ is(p, "varying")
    /\ \E k \in job[p].cache :
          becomes(p, [job[p] EXCEPT !.cache = @ \ {k},
                                    !.lost = @ \/ Len(job[p].used) = 1])
    /\ UNCHANGED <<series, outside>>

FloorMoves ==
    /\ moves < MaxMoves /\ moves' = moves + 1
    /\ \E m \in Model, s \in Served, f \in Floors : minimum' = [minimum EXCEPT ![m][s] = f]
    /\ UNCHANGED <<job, series, instrument, now, keyed>>

Later ==
    /\ now < MaxClock /\ now' = now + 1
    /\ UNCHANGED <<job, series, instrument, minimum, keyed, moves>>

NewVersion ==
    /\ \E v \in Method : instrument' = v
    /\ UNCHANGED <<job, series, now, minimum, keyed, moves>>

Command(p) ==
    \/ \E m \in Model : AnswerFromSeries(p, m) \/ StartVary(p, m)
    \/ PlanOnly(p)
    \/ \E m \in Model, r \in Ranges, n \in Allowances : StartRun(p, m, r, n)
    \/ Probe(p) \/ ProbeRead(p) \/ ProbeFails(p) \/ RunEnds(p)
    \/ Stamp(p) \/ AppendReading(p) \/ AppendCut(p) \/ Killed(p)
    \/ SendVary(p) \/ VaryEnds(p)

SeriesNext ==
    \/ \E p \in Proc : Command(p) \/ Evict(p)
    \/ FloorMoves \/ Later \/ NewVersion

SeriesSpec == SeriesInit /\ [][SeriesNext]_seriesVars

-----------------------------------------------------------------------------
SeriesTypeOK ==
    /\ job \in [Proc -> {Nobody} \cup Search \cup Experiment \cup Stamped]
    /\ series \in Seq({CutShort, Glued} \cup Reading)
    /\ instrument \in Method /\ now \in Nat /\ moves \in Nat /\ keyed \in BOOLEAN
    /\ minimum \in [Model -> [Served -> Floors]]

\* Something answered, and the range the user gave had the floor in it.
Measured(r) ==
    /\ r.saw # {}
    /\ \A f \in r.saw : r.range[1] < f + Bias[r.method] /\ f + Bias[r.method] <= r.range[2]

\* A change that the trend reports is one: two readings that measured anything
\* met different floors, whatever commands ran at once, upgraded, died or
\* wrote in whatever order, and however the floor moved meanwhile.
ChangeIsReal ==
    \A ij \in Changes :
        LET a == series[ij[1]]
            b == series[ij[2]]
        IN  Measured(a) /\ Measured(b) => \E f \in a.saw, g \in b.saw : f # g

\* The series compares exactly what the terminal stated without reservation.
AsItWasTold == \A i \in Readings : series[i].outcome = "clean" <=> series[i].told = "floor"

\* No run sends more than the number it was confirmed for (where it has one), and
\* no experiment more than its three.
SpentAsAgreed ==
    \A p \in Proc :
        /\ (is(p, "probing") \/ is(p, "ended")) /\ job[p].allowed > 0 =>
              job[p].sent <= job[p].allowed
        /\ is(p, "varying") => Len(job[p].used) <= 3

\* The experiment's verdict is true of the provider's key, unless the baseline's
\* entry was evicted before the second request or was never written.
VaryIsTrue ==
    \A p \in Proc :
        is(p, "varying") /\ Len(job[p].used) = 3 =>
            LET used == job[p].used IN
            /\ Verdict(used) = "in the key" => keyed \/ job[p].lost
            /\ Verdict(used) = "not in the key" /\ used[1].wrote => ~keyed

\* What `replay probe` tells its user and keeps for later is so (trend.go,
\* reading.go, vary.go, probe.go).
SeriesIsTrue == ChangeIsReal /\ AsItWasTold /\ SpentAsAgreed /\ VaryIsTrue

\* "A run that established no bracket is not a data point" (trend.go).
DataPointsAreMeasured == \A i \in Comparable : series[i].saw # {}

=============================================================================
