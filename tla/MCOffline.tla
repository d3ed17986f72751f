----------------------------- MODULE MCOffline -----------------------------
(* What works on recordings, in parts that share no state with one another:  *)
(* the readers of a Claude Code transcript and of a Codex rollout log,       *)
(* `replay cost` and its index, the replay of a lane under another cache     *)
(* lifetime, contributing to and pooling of a corpus, recording of a run's   *)
(* tree, and learning of a policy.  `which` says which of them this          *)
(* behaviour is about; the others keep one of their initial states.          *)
EXTENDS Integers, TLC, Recording, Replayer, Pool, Rollout

CONSTANTS Path, Log, Begun, SessionOf, Build, Document, Price, MaxRuns, MaxEvents
CONSTANTS Kind, Candidate, EditRank, Floor, Scale, MinSessions, MaxSessions, MaxRules
CONSTANTS MaxLines, MaxBlocks, MaxNoise, Parallel

VARIABLES which
VARIABLES size, installed, document, index, tmp, runs, events, phase, build, table,
          entries, dirty, cold, read, units, unreadable, handle, since, raced, changed
VARIABLES scored, rules, learner, result, file
VARIABLES lines, paired, tip, open, pending, said, sent, compacted, unusable

Report == INSTANCE Cost
Policy == INSTANCE Learn
Session == INSTANCE Transcript

\* Two lanes of one session and a session of its own.  The models are those of
\* an old price table and one only later tables know; one request has no
\* provider id, one id is met in two files.
request(id, measured, model, deficit, epoch) ==
    [id |-> id, measured |-> measured, model |-> model, deficit |-> deficit,
     epoch |-> epoch]

MCPath == <<"main", "agent", "other">>
MCLog ==
    "main" :> <<request("a", TRUE, "new", 2, "e1"),
                request("ledger-1", FALSE, "old", 3, "e2")>>
    @@ "agent" :> <<request("a", TRUE, "old", 1, "e1")>>
    @@ "other" :> <<request("ledger-1", FALSE, "new", 5, "")>>
MCBegun == "main" :> 1 @@ "agent" :> 1 @@ "other" :> 0
MCSessionOf == "main" :> "s" @@ "agent" :> "s" @@ "other" :> "t"
MCPrice ==
    1 :> ("old" :> 1 @@ "new" :> 0) @@ 2 :> ("old" :> 1 @@ "new" :> 2)
    @@ 3 :> ("old" :> 3 @@ "new" :> 2)

\* Scored sessions of a large and a small type: savings of two lifetimes and two
\* edits, some below the floor; two arms that cost differently, with errors.
kind(type, holdout, saving, arm, perToken, errors, rereads) ==
    [type |-> type, holdout |-> holdout, saving |-> saving, arm |-> arm,
     cost |-> perToken, errors |-> errors, rereads |-> rereads]

MCKind ==
    {kind("large", FALSE, <<10, 12, 30, 12>>, "treated", 4, 1, 0),
     kind("large", FALSE, <<4, 24, 28, 40>>, "control", 10, 1, 0),
     kind("large", TRUE, <<8, 8, 20, -4>>, "control", 9, 0, 1),
     kind("small", FALSE, <<1, 9, 10, 10>>, "treated", 5, 0, 2),
     kind("small", TRUE, <<-3, 10, 6, 4>>, "", 7, 2, 0),
     kind("small", FALSE, <<12, 1, -20, 8>>, "treated", 3, 2, 0)}
MCCandidate ==
    <<[name |-> "ttl-5m", rank |-> 1], [name |-> "ttl-1h", rank |-> 1],
      [name |-> "edit-50k", rank |-> 2], [name |-> "edit-100k", rank |-> 2]>>

\* A response mostly from the cache, one that is not, a small one, and two whose
\* figures contradict themselves.
used(input, cached, write, output, reasoning, total) ==
    [input |-> input, cached |-> cached, write |-> write, output |-> output,
     reasoning |-> reasoning, total |-> total]

MCUsage ==
    {used(10, 8, 1, 1, 1, 11), used(10, 0, 0, 1, 0, 11), used(2, 0, 2, 0, 0, 2),
     used(4, 5, 0, 0, 0, 4), used(0, 0, 0, 0, 0, 3)}

cost == <<size, installed, document, index, tmp, runs, events, phase, build, table,
          entries, dirty, cold, read, units, unreadable, handle, since, raced, changed>>
policy == <<scored, rules, learner, result, file>>
transcript == <<lines, paired, tip, open, pending, said, sent, compacted, unusable>>

vars == <<which, cost, replayVars, poolVars, recordingVars, policy, transcript, rolloutVars>>

Init ==
    /\ which \in {"cost", "replay", "corpus", "recorded", "policy", "transcript", "rollout"}
    /\ Report!Init
    /\ ReplayInit /\ (which # "replay" => ttl = TTLShort)
    /\ PoolInit /\ (which # "corpus" => \A m \in Machine : consent[m] = "withheld")
    /\ RecordInit /\ (which # "recorded" => source = Substrate)
    /\ Policy!Init
    /\ Session!Init /\ (which # "transcript" => paired)
    /\ RolloutInit

Next ==
    \/ which = "cost" /\ Report!Next
       /\ UNCHANGED <<which, replayVars, poolVars, recordingVars, policy, transcript, rolloutVars>>
    \/ which = "replay" /\ ReplayNext
       /\ UNCHANGED <<which, cost, poolVars, recordingVars, policy, transcript, rolloutVars>>
    \/ which = "corpus" /\ PoolNext
       /\ UNCHANGED <<which, cost, replayVars, recordingVars, policy, transcript, rolloutVars>>
    \/ which = "recorded" /\ RecordNext
       /\ UNCHANGED <<which, cost, replayVars, poolVars, policy, transcript, rolloutVars>>
    \/ which = "policy" /\ Policy!Next
       /\ UNCHANGED <<which, cost, replayVars, poolVars, recordingVars, transcript, rolloutVars>>
    \/ which = "transcript" /\ Session!Next
       /\ UNCHANGED <<which, cost, replayVars, poolVars, recordingVars, policy, rolloutVars>>
    \/ which = "rollout" /\ RolloutNext
       /\ UNCHANGED <<which, cost, replayVars, poolVars, recordingVars, policy, transcript>>

Spec == Init /\ [][Next]_vars

\* Processes and machines are interchangeable.
Symmetry == Permutations(Proc) \cup Permutations(Machine)

-----------------------------------------------------------------------------
\* What `replay cost` prints is the sum over the transcripts it read, whatever
\* came out of the index, and is not older than its run (Cost.ReportIsTheSum,
\* ReportIsCurrent).
ReportIsTrue ==
    which = "cost" => Report!TypeOK /\ Report!ReportIsTheSum /\ Report!ReportIsCurrent

\* The policy a starting session is given was earned on its population, under
\* the rules in effect (Learn.SelectionIsEarned).
SelectionIsEarned == which = "policy" => Policy!TypeOK /\ Policy!SelectionIsEarned

\* A transcript read while it grows is the session the client had
\* (Transcript.SessionIsTrue).
SessionIsTrue == which = "transcript" => Session!TypeOK /\ Session!SessionIsTrue

=============================================================================
