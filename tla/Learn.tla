------------------------------- MODULE Learn -------------------------------
(***************************************************************************)
(* `replay learn`: scored sessions, the selection made from them, the      *)
(* trial judged from them, policy.json, and what the proxy takes from that *)
(* file when a session starts.  Sessions and cache rules change while the  *)
(* file stays.  A corpus is a bag of kinds of sessions; a saving is an     *)
(* integer number of units of 1/Scale of a session's as-run cost, and a    *)
(* mean is the pair <<sum, count>>, so every comparison the code makes     *)
(* with floating-point bands is exact here.                                *)
(***************************************************************************)
EXTENDS Integers, Sequences, FiniteSetsExt

CONSTANTS
    Kind,        \* kinds of scored sessions, as records
    Candidate,   \* the catalogue, a sequence of records [name, rank]
    EditRank,    \* the rank of the context-edit family, which alone is live
    Floor,       \* the smallest saving that is evidence
    Scale,       \* units of a saving in a whole
    MinSessions, \* sessions a candidate, and an arm of the trial, needs
    MaxSessions, \* bound: sessions
    MaxRules     \* bound: versions of the cache rules

VARIABLES
    scored,      \* how many sessions of each kind are there
    rules,       \* the cache rules in effect
    learner,     \* `replay learn`: idle, with a result in hand, or writing it
    result,      \* the result in hand
    file         \* policy.json

learnVars == <<scored, rules, learner, result, file>>

Nil == 0
Index == 1..Len(Candidate)
NoFile == [state |-> "none"]
Torn == [state |-> "torn"]

-----------------------------------------------------------------------------
(* Means and bands over the sessions of a population `pop`, a set of kinds, *)
(* with a value v[k] each; b is the bag of sessions.                       *)

Count(b, pop) == MapThenSumSet(LAMBDA k : b[k], pop)
Sum(b, pop, v) == MapThenSumSet(LAMBDA k : b[k] * v[k], pop)
Squares(b, pop, v) == MapThenSumSet(LAMBDA k : b[k] * v[k] * v[k], pop)

\* n times the sum of squared distances from the mean.
Spread(b, pop, v) ==
    Count(b, pop) * Squares(b, pop, v) - Sum(b, pop, v) * Sum(b, pop, v)

\* The mean, 0 of no session.
Mean(b, pop, v) ==
    IF Count(b, pop) = 0 THEN <<0, 1>> ELSE <<Sum(b, pop, v), Count(b, pop)>>

Above(m1, m2) == m1[1] * m2[2] > m2[1] * m1[2]

\* The band of two standard errors around the mean lies above 0; one session
\* has no spread and an infinite band.
AboveNoise(b, pop, v) ==
    LET n == Count(b, pop)
        s == Sum(b, pop, v)
    IN n >= 2 /\ s > 0 /\ s * s * (n - 1) > 4 * Spread(b, pop, v)

-----------------------------------------------------------------------------
(* One candidate.                                                          *)

Magnitude(x) == IF x < 0 THEN -x ELSE x

\* The sessions that say anything of candidate c.
Evidence(c, pop) == {k \in pop : Magnitude(k.saving[c]) >= Floor}
Training(pop) == {k \in pop : ~k.holdout}

\* The verdict that does not depend on other candidates.
judge(b, pop, c) ==
    LET ev == Evidence(c, pop)
        held == ev \ Training(ev)
        saving == [k \in pop |-> k.saving[c]]
    IN /\ Count(b, ev) >= MinSessions
       /\ AboveNoise(b, Training(ev), saving)
       /\ Count(b, held) > 0
       /\ Sum(b, held, saving) > 0

TrainingMean(b, pop, c) ==
    Mean(b, Training(Evidence(c, pop)), [k \in pop |-> k.saving[c]])

simpler(c, d) == Candidate[c].rank < Candidate[d].rank

\* The lead of c over d is not above noise, on the training sessions where
\* neither saves exactly nothing.
pairedTie(b, pop, c, d) ==
    ~AboveNoise(b, {k \in Training(pop) : k.saving[c] # 0 /\ k.saving[d] # 0},
                [k \in pop |-> k.saving[c] - k.saving[d]])

-----------------------------------------------------------------------------
(* The selection.                                                          *)

\* The first of the largest training means.
Best(b, pop, qualified) ==
    CHOOSE c \in qualified :
        \A d \in qualified :
            LET mc == TrainingMean(b, pop, c)
                md == TrainingMean(b, pop, d)
            IN ~Above(md, mc) /\ (d < c => Above(mc, md))

\* Slip: the largest mean is kept whatever ties with it.
LargestWins(b, pop) ==
    LET qualified == {c \in Index : judge(b, pop, c)}
    IN IF qualified = {} THEN Nil ELSE Best(b, pop, qualified)

\* One pass over the catalogue, from the largest mean: a simpler candidate that
\* ties with the one held takes its place.
selectFrom(b, pop) ==
    LET qualified == {c \in Index : judge(b, pop, c)}
        Held[i \in 0..Len(Candidate)] ==
            IF i = 0 THEN Best(b, pop, qualified)
            ELSE IF i \in qualified /\ simpler(i, Held[i - 1])
                    /\ pairedTie(b, pop, Held[i - 1], i)
                 THEN i ELSE Held[i - 1]
    IN IF qualified = {} THEN Nil ELSE Held[Len(Candidate)]

\* The saving the trial was promised: the selected edit's, or the best edit's.
Predicted(b, chosen) ==
    LET edits == {c \in Index : Candidate[c].rank = EditRank}
        means == {TrainingMean(b, Kind, c) : c \in edits} \cup {<<0, 1>>}
    IN IF chosen \in edits THEN TrainingMean(b, Kind, chosen)
       ELSE CHOOSE m \in means : \A n \in means : ~Above(n, m)

Arm(a) == {k \in Kind : k.arm = a}

\* The treated sessions cost less than the controls by more than the noise of
\* both arms.
separated(b) ==
    LET cost == [k \in Kind |-> k.cost]
        t == Arm("treated")   n == Count(b, t)
        c == Arm("control")   m == Count(b, c)
        lead == Sum(b, c, cost) * n - Sum(b, t, cost) * m
    IN /\ n >= 2 /\ m >= 2
       /\ lead > 0
       /\ lead * lead * (n - 1) * (m - 1)
             > 4 * (Spread(b, t, cost) * m * m * (m - 1) + Spread(b, c, cost) * n * n * (n - 1))

\* An outcome a fifth worse in the treated arm; a control arm without any is
\* not compared with.
Worse(b, v) ==
    LET t == Arm("treated")
        c == Arm("control")
    IN Sum(b, c, v) > 0 /\ 10 * Sum(b, t, v) * Count(b, c) > 12 * Sum(b, c, v) * Count(b, t)

Graduate(b, predicted) ==
    LET cost == [k \in Kind |-> k.cost]
        t == Arm("treated")   n == Count(b, t)
        c == Arm("control")   m == Count(b, c)
        whole == n * Sum(b, c, cost)
    IN /\ n >= MinSessions /\ m >= MinSessions
       /\ separated(b)
       /\ ~Worse(b, [k \in Kind |-> k.errors])
       /\ ~Worse(b, [k \in Kind |-> k.rereads])
       /\ 2 * predicted[2] * Scale * (whole - m * Sum(b, t, cost)) >= predicted[1] * whole

Type == {k.type : k \in Kind}
OfType(t) == {k \in Kind : k.type = t}

\* The whole result; `from` is the corpus it was made from, for the properties.
Select(b) ==
    LET chosen == selectFrom(b, Kind)
    IN [state |-> "whole", rules |-> rules, selected |-> chosen,
        types |-> [t \in Type |-> selectFrom(b, OfType(t))],
        graduated |-> Graduate(b, Predicted(b, chosen)), from |-> b]

\* What a session of type t that starts now gets from the file: nothing from a
\* file that is torn, absent or learned under other rules, its type's selection
\* before the overall one, and only an edit.
SelectedFor(t) == IF file.types[t] # Nil THEN file.types[t] ELSE file.selected
policyFromFile(t) ==
    IF file.state = "whole" /\ file.rules = rules /\ SelectedFor(t) # Nil
       /\ Candidate[SelectedFor(t)].rank = EditRank
    THEN SelectedFor(t) ELSE Nil

-----------------------------------------------------------------------------
Init ==
    /\ scored = [k \in Kind |-> 0] /\ rules = 1
    /\ learner = "idle" /\ result = NoFile /\ file = NoFile

\* Another session that calibrates, scored for every candidate; a candidate
\* that does not reach it (a lifetime, on a sub-agent's lane) saves 0.
Score(k) ==
    /\ Count(scored, Kind) < MaxSessions
    /\ scored' = [scored EXCEPT ![k] = @ + 1]
    /\ UNCHANGED <<rules, learner, result, file>>

\* Other cache rules are in effect.
ChangeRules ==
    /\ rules < MaxRules /\ rules' = rules + 1
    /\ UNCHANGED <<scored, learner, result, file>>

Learn ==
    /\ learner = "idle"
    /\ learner' = "judged" /\ result' = Select(scored)
    /\ UNCHANGED <<scored, rules, file>>

\* A file that does not parse as a policy is somebody's data, and is kept.
Refuse ==
    /\ learner = "judged" /\ file = Torn
    /\ learner' = "idle" /\ result' = NoFile
    /\ UNCHANGED <<scored, rules, file>>

\* os.WriteFile empties the file before it writes it.
Truncate ==
    /\ learner = "judged" /\ file # Torn
    /\ learner' = "writing" /\ file' = Torn
    /\ UNCHANGED <<scored, rules, result>>

Write ==
    /\ learner = "writing"
    /\ learner' = "idle" /\ file' = result /\ result' = NoFile
    /\ UNCHANGED <<scored, rules>>

Die ==
    /\ learner # "idle"
    /\ learner' = "idle" /\ result' = NoFile
    /\ UNCHANGED <<scored, rules, file>>

Next ==
    \/ \E k \in Kind : Score(k)
    \/ ChangeRules
    \/ Learn \/ Refuse \/ Truncate \/ Write \/ Die

Spec == Init /\ [][Next]_learnVars

-----------------------------------------------------------------------------
TypeOK ==
    /\ scored \in [Kind -> 0..MaxSessions] /\ rules \in 1..MaxRules
    /\ learner \in {"idle", "judged", "writing"}
    /\ file.state \in {"none", "torn", "whole"}

\* Candidate c is the one population pop should elect: it meets the rules, no
\* other that does has a larger mean, unless c replaced the largest for being
\* simpler and tied with it, and no simpler one ties with c.
Stands(b, pop, c) ==
    LET standing == {d \in Index : judge(b, pop, d)}
        mean == [d \in standing |-> TrainingMean(b, pop, d)]
        Largest(d) == \A e \in standing : ~Above(mean[e], mean[d])
    IN /\ c \in standing
       /\ Largest(c) \/ \E d \in standing : Largest(d) /\ simpler(c, d) /\ pairedTie(b, pop, d, c)
       /\ \A d \in standing : simpler(d, c) => ~pairedTie(b, pop, c, d)

\* Whatever a session that starts is given was earned: under the rules in
\* effect, on the sessions of its own type when they elected anything and on all
\* of them otherwise.  A result that elects nothing had nothing to elect, and a
\* graduated trial has arms of the least size of which the treated costs less.
SelectionIsEarned ==
    file.state = "whole" =>
        LET b == file.from
            pop(t) == IF file.types[t] # Nil THEN OfType(t) ELSE Kind
            per(a) == Mean(b, Arm(a), [k \in Kind |-> k.cost])
        IN /\ \A t \in Type :
                 policyFromFile(t) # Nil => file.rules = rules /\ Stands(b, pop(t), policyFromFile(t))
           /\ file.selected # Nil => Stands(b, Kind, file.selected)
           /\ file.selected = Nil => \A c \in Index : ~judge(b, Kind, c)
           /\ file.graduated =>
                 /\ \A a \in {"treated", "control"} : Count(b, Arm(a)) >= MinSessions
                 /\ Above(per("control"), per("treated"))
=============================================================================
