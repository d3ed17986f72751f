------------------------------ MODULE Replayer ------------------------------
(* The replay of a recorded lane under another cache lifetime                 *)
(* (internal/analysis/replay.go, calibrate.go, internal/cachemodel).  A lane  *)
(* is recorded while a provider, whose behaviour is known only from what it   *)
(* reports, serves one client that asks for entries of lifetime `ttl`; the    *)
(* turn just recorded is calibrated against its predecessor and replayed      *)
(* under both lifetimes.  Tokens and time are small integers.                 *)
EXTENDS Integers

CONSTANTS
    TTLShort, TTLLong,      \* five minutes and one hour
    MinPrefix,              \* cachemodel.MinCacheablePrefix of the lane's model
    MaxPrompt, MaxGap, MaxTurns

ASSUME LifetimeAssumption ==
    /\ TTLShort \in Nat /\ TTLLong \in Nat /\ TTLShort < TTLLong
    /\ {MinPrefix, MaxPrompt, MaxGap, MaxTurns} \subseteq Nat

Lifetime == {TTLShort, TTLLong}

VARIABLES
    ttl,            \* what the client asks for: external
    turns,
    prev, cur,      \* usage of the last two turns
    gap,
    how,            \* history: why the provider read what it read
    outcome,        \* Turn.Outcome of the last turn
    reproduced, exceeded, broken,
    cache,          \* cacheState.prefix of WithTTL for each lifetime
    sim             \* the read and the write of the last turn under each

replayVars == <<ttl, turns, prev, cur, gap, how, outcome, reproduced, exceeded, broken, cache,
          sim>>

NoUsage == [input |-> 0, read |-> 0, create5m |-> 0, create1h |-> 0]

created(u) == u.create5m + u.create1h
PromptTotal(u) == u.input + u.read + created(u)

ReplayInit ==
    /\ ttl \in Lifetime
    /\ turns = 0 /\ prev = NoUsage /\ cur = NoUsage /\ gap = 0 /\ how = "none"
    /\ outcome = "none"
    /\ reproduced = 0 /\ exceeded = 0 /\ broken = 0
    /\ cache = [t \in Lifetime |-> 0]
    /\ sim = [t \in Lifetime |-> [read |-> 0, write |-> 0]]

-----------------------------------------------------------------------------
\* Everything the previous request processed except its uncached tail.
ExpectedRead(u) == PromptTotal(u) - u.input

ClassifyRead(old, u) ==
    IF u.read = ExpectedRead(old) THEN "reproduced"
    ELSE IF u.read > ExpectedRead(old) THEN "exceeded" ELSE "broken"

\* The lifetime a request's writes used, as far as they say.
TTLOf(u) == IF u.create1h > 0 /\ u.create5m = 0 THEN TTLLong ELSE TTLShort

\* Slip: every break is left to the simulator, the client's own too.
observedGrowth(o, old, u, g) == IF o = "exceeded" THEN u.read ELSE -1

\* observedAvailability of one turn: -1 where nothing constrains the replay.
observedAvailability(o, old, u, g) ==
    IF o = "exceeded" \/ (o = "broken" /\ g <= TTLOf(old)) THEN u.read ELSE -1

Lesser(a, b) == IF a < b THEN a ELSE b

\* cacheState.serve: the read, the rest being written.
served(prefix, t, g, cacheable, observed) ==
    IF ~ (prefix > 0 /\ g <= t /\ cacheable >= MinPrefix) THEN 0
    ELSE IF observed >= 0 THEN Lesser(observed, cacheable)
    ELSE Lesser(prefix, cacheable)

\* SimulatedUsage of the write a provider makes: all of one lifetime.
usage(tail, write, read, t) ==
    [input |-> tail, read |-> read,
     create5m |-> IF t = TTLLong THEN 0 ELSE write,
     create1h |-> IF t = TTLLong THEN write ELSE 0]

\* One more request recorded, calibrated and replayed.  The first one seeds the
\* replay with what it found cached (newCacheState).
Record(u, g, why) ==
    LET o == IF turns = 0 THEN "first" ELSE ClassifyRead(cur, u)
        observed == IF turns = 0 THEN -1 ELSE observedAvailability(o, cur, u, g)
        before(t) == IF turns = 0 THEN u.read ELSE cache[t]
        cacheable == PromptTotal(u) - u.input
        r == [t \in Lifetime |->
                 served(before(t), t, IF turns = 0 THEN 0 ELSE g, cacheable, observed)]
    IN  /\ turns < MaxTurns
        /\ turns' = turns + 1
        /\ prev' = cur /\ cur' = u /\ gap' = g /\ how' = why
        /\ outcome' = o
        /\ reproduced' = reproduced + (IF o = "reproduced" THEN 1 ELSE 0)
        /\ exceeded' = exceeded + (IF o = "exceeded" THEN 1 ELSE 0)
        /\ broken' = broken + (IF o = "broken" THEN 1 ELSE 0)
        /\ cache' = [t \in Lifetime |-> cacheable]
        /\ sim' = [t \in Lifetime |-> [read |-> r[t], write |-> cacheable - r[t]]]
        /\ UNCHANGED ttl

-----------------------------------------------------------------------------
(* The provider and the client, known from what they report.                  *)

Held == IF turns = 0 THEN 0 ELSE ExpectedRead(cur)

\* The prefix stood and was still cached.
ReadsOn(g, cacheable, tail) ==
    /\ turns > 0 => g <= ttl
    /\ LET r == IF turns = 0 THEN 0 ELSE Lesser(Held, cacheable)
       IN  Record(usage(tail, cacheable - r, r, ttl), g, "held")

\* The client changed something early in its prompt.
ClientBreaks(g, cacheable, tail, r) ==
    /\ turns > 0 /\ g <= ttl /\ r < Lesser(Held, cacheable)
    /\ Record(usage(tail, cacheable - r, r, ttl), g, "client")

\* The entry expired.
Expires(g, cacheable, tail) ==
    /\ turns > 0 /\ g > ttl
    /\ Record(usage(tail, cacheable, 0, ttl), g, "expired")

\* A sibling, or an earlier session, left a longer prefix.
SiblingExtends(g, cacheable, tail, r) ==
    /\ r > Held /\ r <= cacheable
    /\ Record(usage(tail, cacheable - r, r, ttl), g, "sibling")

\* Too short to be cached: all of it is input.
TooShort(g, prompt) ==
    /\ prompt < MinPrefix
    /\ Record(usage(prompt, 0, 0, ttl), g, "short")

ReplayNext ==
    \E g \in 0..MaxGap :
        \/ \E p \in 1..MaxPrompt : TooShort(g, p)
        \/ \E c \in MinPrefix..MaxPrompt, tail \in {0, 1} :
              \/ ReadsOn(g, c, tail)
              \/ \E r \in 0..c : ClientBreaks(g, c, tail, r)
              \/ Expires(g, c, tail)
              \/ \E r \in 1..c : SiblingExtends(g, c, tail, r)

ReplaySpec == ReplayInit /\ [][ReplayNext]_replayVars

-----------------------------------------------------------------------------
(* Properties.                                                                *)

ReplayTypeOK ==
    /\ ttl \in Lifetime /\ turns \in 0..MaxTurns
    /\ reproduced + exceeded + broken = (IF turns = 0 THEN 0 ELSE turns - 1)
    /\ \A t \in Lifetime : sim[t].read \in Nat /\ sim[t].write \in Nat

\* What the replay cannot know: that an hour-long entry was broken and not
\* expired when the turn before wrote nothing to show its lifetime, and what a
\* sibling kept alive where the lane itself had nothing cached.
Undecidable ==
    \/ how = "client" /\ gap > TTLOf(prev)
    \/ how = "sibling" /\ turns > 1 /\ (gap > ttl \/ ExpectedRead(prev) = 0)

\* Replayed under the lifetime it ran with, a lane reads and writes what it did,
\* turn by turn (cacheState.serve: the only thing that differs from as-run is
\* the policy under test).
OwnLifetimeIsAsRun ==
    turns > 0 /\ ~ Undecidable =>
        sim[ttl] = [read |-> cur.read, write |-> created(cur)]

\* A turn whose entry had expired is replayed under the longer lifetime as the
\* hit it would have been, if its gap was within it; and no turn reads less for
\* living longer (observedAvailability: expiries are left to the simulator).
LongerKeepsWhatExpired ==
    /\ sim[TTLLong].read >= sim[TTLShort].read
    /\ how = "expired" /\ ttl = TTLShort /\ gap <= TTLLong =>
          sim[TTLLong].read = Lesser(ExpectedRead(prev), cache[TTLLong])

\* Replayed under its own lifetime a lane costs what it did, and a longer one
\* keeps what had expired and loses nothing.
LifetimesReplayed == ReplayTypeOK /\ OwnLifetimeIsAsRun /\ LongerKeepsWhatExpired

=============================================================================
