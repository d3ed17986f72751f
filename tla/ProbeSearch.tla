----------------------------- MODULE ProbeSearch -----------------------------
(***************************************************************************)
(* The search for a provider's smallest cacheable prefix: Search.Next and  *)
(* Search.Record (internal/probe/probe.go) and the loop that pays for the  *)
(* probes (Runner.Run in internal/probe/run.go).  The provider is          *)
(* external: it caches a prefix of at least `floor` tokens, rounded up to  *)
(* whole blocks, may answer from an entry that was already there, may      *)
(* refuse a request, and may change its floor once during a run.           *)
(***************************************************************************)
EXTENDS Integers, FiniteSets, Sequences, FiniteSetsExt

CONSTANTS
    MinSize, MaxSize,   \* Config.Min, Config.Max
    Resolution,         \* Config.Resolution
    Percent,            \* Config.RelativeResolution in hundredths; 0 for unset
    Candidates,         \* Config.Candidates, a sequence
    Priors,             \* values Config.Prior may have, 0 for none
    Confirm,            \* Config.Confirm
    Budgets,            \* values Config.MaxProbes may have, none of them 0
    Blocks,             \* block sizes the provider may round to
    Noise,              \* how far the prefix that is built may miss the size asked for
    StepLimit           \* how often Next steps off a size it knows

ASSUME SearchAssumption ==
    /\ MinSize \in Nat /\ MaxSize \in Nat /\ Confirm \in Nat \ {0}
    /\ Budgets \subseteq Nat
    /\ Blocks \subseteq Nat \ {0} /\ \E b \in Blocks : \A c \in Blocks : b >= c

VARIABLES
    prior, budget,      \* the configuration of this run
    lo, hi,             \* the bracket
    probes, sent,       \* answers recorded; requests paid for
    answers,            \* answers[n]: <<did not write, wrote>>
    cachedAt,           \* sizes confirmed to cache
    writes,             \* the distinct cached sizes
    priorDone, priorBelow, stoppedEarly, contradicted, nonDeterministic, stalled,
    ended,              \* "no", "done" or "failed"
    \* The provider:
    floor, block, drifted

searchVars == <<prior, budget, lo, hi, probes, sent, answers, cachedAt, writes, priorDone,
                priorBelow, stoppedEarly, contradicted, nonDeterministic, stalled, ended,
                floor, block, drifted>>
flags == <<stoppedEarly, contradicted, nonDeterministic, stalled>>
config == <<prior, budget>>
provider == <<floor, block, drifted>>

Sizes == MinSize..(MaxSize + Max(Blocks))

SearchInit ==
    /\ prior \in Priors /\ budget \in Budgets
    /\ lo = MinSize /\ hi = MaxSize
    /\ probes = 0 /\ sent = 0
    /\ answers = [n \in Sizes |-> <<0, 0>>]
    /\ cachedAt = {} /\ writes = {}
    /\ priorDone = FALSE /\ priorBelow = FALSE /\ stoppedEarly = FALSE
    /\ contradicted = FALSE /\ nonDeterministic = FALSE /\ stalled = FALSE
    /\ ended = "no"
    /\ floor \in (MinSize + 1)..MaxSize /\ block \in Blocks /\ drifted = FALSE

-----------------------------------------------------------------------------
Abs(n) == IF n < 0 THEN -n ELSE n
Answered(n) == answers[n][1] + answers[n][2]
confirmed(n) == Answered(n) >= Confirm
Inside(n) == n > lo /\ n < hi

\* Granularity: the greatest common divisor, from three distinct sizes on.
Granularity ==
    IF Cardinality(writes) < 3 THEN 0
    ELSE Max({d \in 1..Max(writes) : \A w \in writes : w % d = 0})

stopWidth == Max({1, Granularity, IF Percent > 0 THEN (hi * Percent) \div 100 ELSE Resolution})

Middle == lo + (hi - lo) \div 2

\* The candidate nearest the middle of the bracket, the first of those that tie.
nextCandidate ==
    LET inside == {i \in DOMAIN Candidates : Inside(Candidates[i])}
        gap(i) == Abs(Candidates[i] - Middle)
        nearest == {i \in inside : \A j \in inside : gap(i) <= gap(j)}
    IN IF inside = {} THEN 0 ELSE Candidates[Min(nearest)]

smallestCachingCandidate ==
    LET found == {c \in cachedAt : c > 0 /\ (c = prior \/ \E i \in DOMAIN Candidates : c = Candidates[i])}
    IN IF found = {} THEN 0 ELSE Min(found)

ditherOffsets == <<3, -5, 7, -3, 11, -7, 5, -11>>
Dithered ==
    LET d == ditherOffsets[((lo + hi) % 8) + 1] IN
    IF hi - lo > 8 /\ Inside(Middle + d) THEN Middle + d ELSE Middle

\* Steps off sizes that are already known; 0 when there is nowhere to go.
SteppedOff ==
    LET off[i \in 0..StepLimit] ==
          IF i = 0 THEN Dithered
          ELSE LET m == off[i - 1] IN
               IF m = 0 \/ ~confirmed(m) THEN m
               ELSE IF m + 1 < hi THEN m + 1
               ELSE IF m - 1 > lo THEN m - 1
               ELSE 0
    IN off[StepLimit]

\* Next, as far as it concerns the bracket: the first proposal that applies.
Proposal ==
    LET belowCandidate == smallestCachingCandidate - stopWidth
        belowPrior == prior - stopWidth
    IN  IF contradicted \/ nonDeterministic \/ stalled \/ hi - lo <= stopWidth THEN 0
        ELSE IF ~priorDone /\ prior > 0 /\ Inside(prior) /\ ~confirmed(prior) THEN prior
        ELSE IF /\ smallestCachingCandidate > 0 /\ nextCandidate = 0
                /\ Inside(belowCandidate) /\ ~confirmed(belowCandidate) THEN belowCandidate
        ELSE IF ~priorBelow /\ priorDone /\ prior > 0 /\ Inside(belowPrior) THEN belowPrior
        ELSE IF nextCandidate > 0 /\ ~confirmed(nextCandidate) THEN nextCandidate
        ELSE SteppedOff

\* Whether Next asks for another probe.
Wants == Proposal # 0 /\ probes < budget

\* Next's budget test comes before the width of the bracket is looked at, and
\* Run has one of its own on what was sent.
Finish ==
    /\ ended = "no" /\ (~Wants \/ sent >= budget)
    /\ ended' = "done"
    /\ stoppedEarly' = (\/ Wants
                        \/ probes >= budget /\ ~(contradicted \/ nonDeterministic \/ stalled))
    /\ UNCHANGED <<config, lo, hi, probes, sent, answers, cachedAt, writes, priorDone,
                   priorBelow, contradicted, nonDeterministic, stalled, provider>>

Probing == ended = "no" /\ Wants /\ sent < budget

\* The request fails: Run returns the search as far as it got.
Fail ==
    /\ Probing
    /\ sent' = sent + 1 /\ ended' = "failed"
    /\ UNCHANGED <<config, lo, hi, probes, answers, cachedAt, writes, priorDone, priorBelow,
                   flags, provider>>

\* The answer came from an entry that was there before: nothing is decided.
Inconclusive ==
    /\ Probing
    /\ sent' = sent + 1
    /\ UNCHANGED <<config, lo, hi, probes, answers, cachedAt, writes, priorDone, priorBelow,
                   flags, ended, provider>>

\* Slip: the size that was asked for bounds the floor, not what was cached.
UpperBoundAsked(cached, asked) == asked - 1

\* The bound a write puts on the floor: the provider's own count.
UpperBound(cached, asked) == IF cached > 0 THEN cached ELSE asked

\* Record, for the prefix of n tokens that was really built.
Record(n) ==
    /\ Probing
    /\ LET wrote == n >= floor
           cached == IF wrote THEN ((n + block - 1) \div block) * block ELSE 0
           got == [answers[n] EXCEPT ![IF wrote THEN 2 ELSE 1] = @ + 1]
           split == got[1] > 0 /\ got[2] > 0
           decides == ~split /\ got[1] + got[2] >= Confirm
           newLo == IF decides /\ ~wrote /\ n > lo THEN n ELSE lo
           newHi == IF decides /\ wrote /\ UpperBound(cached, n) < hi
                    THEN UpperBound(cached, n) ELSE hi
       IN /\ sent' = sent + 1 /\ probes' = probes + 1
          /\ answers' = [answers EXCEPT ![n] = got]
          /\ writes' = IF wrote THEN writes \cup {cached} ELSE writes
          /\ nonDeterministic' = split
          /\ cachedAt' = IF decides /\ wrote THEN cachedAt \cup {n} ELSE cachedAt
          /\ priorDone' = (priorDone \/ (decides /\ n = prior))
          /\ priorBelow' = (priorBelow \/ (decides /\ n # prior /\ priorDone /\ n < prior))
          /\ lo' = newLo /\ hi' = newHi
          /\ contradicted' = (newLo >= newHi)
          /\ stalled' = (decides /\ newLo < newHi /\ newLo = lo /\ newHi = hi)
    /\ UNCHANGED <<config, stoppedEarly, ended, provider>>

\* The provider's floor moves while the run is under way.
Drift ==
    /\ ended = "no" /\ ~drifted /\ sent > 0
    /\ drifted' = TRUE
    /\ floor' \in ((MinSize + 1)..MaxSize) \ {floor}
    /\ UNCHANGED <<config, lo, hi, probes, sent, answers, cachedAt, writes, priorDone,
                   priorBelow, flags, ended, block>>

SearchNext ==
    \/ Finish \/ Fail \/ Inconclusive \/ Drift
    \/ \E d \in Noise : Proposal + d \in Sizes /\ Record(Proposal + d)

SearchSpec == SearchInit /\ [][SearchNext]_searchVars

-----------------------------------------------------------------------------
SearchTypeOK ==
    /\ lo \in Sizes /\ hi \in Sizes
    /\ probes \in 0..budget /\ sent \in probes..budget
    /\ cachedAt \subseteq Sizes /\ writes \subseteq Sizes
    /\ {priorDone, priorBelow, stoppedEarly, contradicted, nonDeterministic, stalled, drifted}
         \subseteq BOOLEAN
    /\ ended \in {"no", "done", "failed"}

\* While the provider keeps one floor, the bracket always contains it, whatever
\* the prior, the candidates, the block rounding and the misses of the sizing
\* do, and the run never reports the provider as unstable; and no more requests
\* are paid for than the budget allows, the inconclusive ones included.
BracketHolds ==
    /\ ~drifted => lo < floor /\ floor <= hi /\ ~contradicted /\ ~nonDeterministic
    /\ sent <= budget

\* A run that ends without saying why has reached its resolution, or knows the
\* answer at every size inside the bracket: it is not reported as complete when
\* the budget, the granularity or a contradiction stopped it.
EndIsQualified ==
    ended = "done" /\ ~(stoppedEarly \/ stalled \/ contradicted \/ nonDeterministic)
        => hi - lo <= stopWidth \/ \A n \in (lo + 1)..(hi - 1) : confirmed(n)

\* "Never pay twice for an answer already held."
NeverPaysTwice == Probing => ~confirmed(Proposal)

=============================================================================
