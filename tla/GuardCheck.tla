------------------------------ MODULE GuardCheck ------------------------------
(* The two reviewers that put a change's conditionals to the test suite:      *)
(* scripts/guard-reachability (the conditionals a diff touched) and           *)
(* scripts/refusal-reachability (the conditions in front of a refusal), and   *)
(* the decisions of internal/guardcheck they rest on.  Both force a condition *)
(* false IN PLACE, run the package's tests and write the file back; the first *)
(* then asks the base tree which survivors it already had, spends recorded    *)
(* evidence on the rest and exits 0 or 1.                                     *)
(*                                                                            *)
(* What a test run answers is chosen when it is run, so a suite may answer    *)
(* anything; a process may be killed between any two steps and run again.     *)
(* Conditions are members of Site, numbered in file order; wording, offsets   *)
(* and output are left out.  Nobody else edits the tree while a run is on.    *)
EXTENDS Integers, Sequences, FiniteSets, SequencesExt

CONSTANTS Site,       \* 1..n, the conditionals of the working tree
          File,       \* [Site -> ...] the file each sits in
          Pkg,        \* [Site -> ...] its package
          Identity,   \* [Site -> ...] package, function and condition text
          Address,    \* [Site -> ...] the identity and the producing statement
          Where,      \* [Site -> {"here", "elsewhere", "unparsed", "nowhere"}]
          Refusal,    \* the sites that gate a refusal
          Unmutable,  \* refusals with no condition of their own to force false
          Committed,  \* sites on lines of `git diff base...HEAD`
          Edited,     \* sites on lines of `git diff base`
          Manifests,  \* the sets of addresses a manifest may hold
          MaxCands,   \* conditions of one identity in the base tree
          Times,      \* seconds the baseline may take
          MaxRuns     \* bound: how often a reviewer is started

ASSUME GuardAssumption ==
    /\ Site \subseteq Nat \ {0} /\ IsFiniteSet(Site)
    /\ Refusal \subseteq Site /\ Committed \subseteq Site /\ Edited \subseteq Site
    /\ Times \subseteq Nat /\ MaxCands \in Nat /\ MaxRuns \in Nat

VARIABLES tool,      \* "guard" or "refusal"
          pc,        \* where the process is
          changed,   \* the sites this run is about
          unbuilt,   \* those in files this host does not compile
          todo,      \* sites still to be neutralised
          current,   \* the neutralised one whose tests are running, or 0
          tree,      \* sites whose condition is forced false on disk
          found,     \* `tree` as this run found it
          verdict,   \* [Site -> what the run made of it]
          survivors, \* in the order they were judged
          seconds,   \* how long the baseline took
          cands,     \* [identity -> untried conditions with it in the base]
          done,      \* identities the base has been asked about
          baseCount, \* [identity -> how many survived in the base]
          baseErr,   \* the base tree could not answer
          worktree,  \* base checkouts that were never removed
          entries,   \* the addresses of the manifest that was read
          exit,      \* the process status, or none yet
          started    \* how many runs were started

vars == <<tool, pc, changed, unbuilt, todo, current, tree, found, verdict, survivors,
          seconds, cands, done, baseCount, baseErr, worktree, entries, exit, started>>

none == 99   \* no exit status yet
Identities == {Identity[s] : s \in Site}
Verdicts == {"unseen", "skipped", "unchecked", "caught", "unreached", "inert", "unobserved"}
survived == {"unreached", "inert", "unobserved"}

TypeOK ==
    /\ tool \in {"guard", "refusal"}
    /\ pc \in {"idle", "list", "baseline", "judge", "test", "base", "ask", "decide", "exit", "ended"}
    /\ changed \in SUBSET Site /\ unbuilt \in SUBSET Site /\ todo \in SUBSET Site
    /\ current \in Site \cup {0} /\ tree \in SUBSET Site /\ found \in SUBSET Site
    /\ verdict \in [Site -> Verdicts] /\ survivors \in Seq(Site) /\ seconds \in Times \cup {0}
    /\ cands \in [Identities -> 0 .. MaxCands] /\ done \in SUBSET Identities
    /\ baseCount \in [Identities -> Nat] /\ baseErr \in BOOLEAN
    /\ worktree \in Nat /\ exit \in {0, 1, 2, none} /\ started \in 0 .. MaxRuns

-----------------------------------------------------------------------------
(* The decisions of internal/guardcheck.                                     *)

\* NeutralisedTimeout: four times the baseline, at least a minute and at most
\* go test's own ten.  A suite that runs into it is a condition caught.
NeutralisedTimeout(baseline) ==
    IF baseline * 4 < 60 THEN 60 ELSE IF baseline * 4 > 600 THEN 600 ELSE baseline * 4

\* CountByIdentity, of the survivors.
CountByIdentity(id) == Cardinality({k \in DOMAIN survivors : Identity[survivors[k]] = id})

\* PairSurvivors: the k-th survivor pre-dates the change when the base's count
\* for its identity has not been spent on the survivors before it.
PairSurvivorsUnspent(k) == baseCount[Identity[survivors[k]]] > 0
PairSurvivors(k) ==
    baseCount[Identity[survivors[k]]] >=
        Cardinality({j \in 1 .. k : Identity[survivors[j]] = Identity[survivors[k]]})

\* ClassifySurvivors: a base that could not answer exempts nothing.
introduced ==
    {survivors[k] : k \in {j \in DOMAIN survivors : baseErr \/ ~PairSurvivors(j)}}

\* Without: everything analysed whose address no survivor and no unchecked
\* site has.
BuildableHere(sites) == {s \in sites : Where[s] = "here"}
BuiltOnSomePlatform(sites) == {s \in sites : Where[s] = "elsewhere"}
analysed == BuildableHere(changed)
unchecked == {s \in analysed : verdict[s] = "unchecked"}
caught == {s \in analysed : \A u \in Range(survivors) \cup unchecked : Address[s] # Address[u]}

\* ClassifyEvidenced: the introduced survivors the manifest accounts for, the
\* ones it does not, and the entries a caught site disproves.
evidenced == {s \in introduced : Address[s] \in entries}
unexplained == introduced \ evidenced
stale == {Address[s] : s \in caught} \cap (entries \ {Address[s] : s \in evidenced})

\* ExitCode and ExitCodeWithEvidence.
ExitCodeWithEvidence ==
    IF unexplained = {} /\ unchecked = {} /\ unbuilt = {} /\ stale = {} THEN 0 ELSE 1

-----------------------------------------------------------------------------
Init ==
    /\ changed = {} /\ unbuilt = {} /\ todo = {} /\ current = 0
    /\ verdict = [s \in Site |-> "unseen"] /\ survivors = <<>> /\ seconds = 0
    /\ cands = [i \in Identities |-> 0] /\ done = {}
    /\ baseCount = [i \in Identities |-> 0] /\ baseErr = FALSE /\ entries = {} /\ exit = none
    /\ tool = "guard" /\ pc = "idle"
    /\ tree = {} /\ found = {} /\ worktree = 0 /\ started = 0

Stop(code) == pc' = "ended" /\ exit' = code

\* Somebody starts one of the two reviewers, on the tree as it is.
Start ==
    /\ pc \in {"idle", "ended"} /\ started < MaxRuns
    /\ changed' = {} /\ unbuilt' = {} /\ todo' = {} /\ current' = 0
    /\ verdict' = [s \in Site |-> "unseen"] /\ survivors' = <<>> /\ seconds' = 0
    /\ cands' = [i \in Identities |-> 0] /\ done' = {}
    /\ baseCount' = [i \in Identities |-> 0] /\ baseErr' = FALSE /\ entries' = {} /\ exit' = none
    /\ tool' \in {"guard", "refusal"}
    /\ pc' = "list" /\ found' = tree /\ started' = started + 1
    /\ UNCHANGED <<tree, worktree>>

\* changedGoFiles and ParseDiff: the union of two diffs, of which one git
\* cannot take adds nothing.
changedGoFiles(gitHead, gitTree) ==
    (IF gitHead THEN Committed ELSE {}) \cup (IF gitTree THEN Edited ELSE {})

\* One changed file after another.  A file built nowhere is left out; one built
\* on another platform is counted as unbuilt, unless it does not parse.
ListChanged ==
    /\ pc = "list" /\ tool = "guard"
    /\ \E gitHead, gitTree \in BOOLEAN :
          LET touched == changedGoFiles(gitHead, gitTree)
              here == BuildableHere(touched)
              other == BuiltOnSomePlatform(touched)
          IN  /\ changed' = touched /\ unbuilt' = other /\ todo' = here
              /\ IF here # {} THEN pc' = "baseline" /\ UNCHANGED exit
                 ELSE Stop(IF other = {} THEN 0 ELSE 1)
    /\ UNCHANGED <<tool, current, tree, found, verdict, survivors, seconds, cands, done,
                   baseCount, baseErr, worktree, entries, started>>

\* refusalsIn over every file that is built: a refusal behind no condition
\* that can be forced false is unverified from the start.
refusalsIn(sites) == sites \cap Refusal
ListRefusals ==
    /\ pc = "list" /\ tool = "refusal"
    /\ changed' = refusalsIn(BuildableHere(Site))
    /\ todo' = changed' \ Unmutable
    /\ verdict' = [s \in Site |-> IF s \in changed' \cap Unmutable THEN "skipped" ELSE "unseen"]
    /\ pc' = "baseline"
    /\ UNCHANGED <<tool, unbuilt, current, tree, found, survivors, seconds, cands, done,
                   baseCount, baseErr, worktree, entries, exit, started>>

\* A file that will not parse stops either reviewer.
ParseFails ==
    /\ pc = "list" /\ Stop(IF tool = "guard" THEN 1 ELSE 2)
    /\ UNCHANGED <<tool, changed, unbuilt, todo, current, tree, found, verdict, survivors,
                   seconds, cands, done, baseCount, baseErr, worktree, entries, started>>

\* The untouched tree's own suite: a red one ends the run, and its time bounds
\* every run after it.
Baseline ==
    /\ pc = "baseline"
    /\ \E green \in BOOLEAN, t \in Times :
          /\ seconds' = t
          /\ IF green THEN pc' = "judge" /\ UNCHANGED exit
             ELSE Stop(IF tool = "guard" THEN 1 ELSE 2)
    /\ UNCHANGED <<tool, changed, unbuilt, todo, current, tree, found, verdict, survivors,
                   cands, done, baseCount, baseErr, worktree, entries, started>>

\* Neutralise: the next site of some file (the files come in a map's order) is
\* forced false on disk and its package's tests start.  The first reviewer
\* refuses a condition that is forced false already, and passes it over.
Neutralise ==
    /\ pc = "judge"
    /\ \E s \in todo :
          /\ \A u \in todo : File[u] = File[s] => s <= u
          /\ todo' = todo \ {s}
          /\ \/ /\ tool = "refusal" \/ s \notin tree
                /\ tree' = tree \cup {s} /\ current' = s /\ pc' = "test"
                /\ UNCHANGED verdict
             \/ /\ tool = "guard" /\ s \in tree
                /\ verdict' = [verdict EXCEPT ![s] = "skipped"]
                /\ UNCHANGED <<tree, current, pc>>
    /\ UNCHANGED <<tool, changed, unbuilt, found, survivors, seconds, cands, done,
                   baseCount, baseErr, worktree, entries, exit, started>>

\* The tests end, the file is written back as it was read and the verdict is
\* taken: not compiled, red (a hang counts as red), or green and so surviving,
\* in the class the baseline's coverage puts it in (BranchTaken).
Judge ==
    /\ pc = "test"
    /\ tree' = IF current \in found THEN tree ELSE tree \ {current}
    /\ \E v \in Verdicts \ {"unseen", "skipped"} :
          /\ tool = "refusal" => v \notin {"unreached", "inert"}
          /\ verdict' = [verdict EXCEPT ![current] = v]
          /\ survivors' = IF v \in survived THEN Append(survivors, current) ELSE survivors
    /\ current' = 0 /\ pc' = "judge"
    /\ UNCHANGED <<tool, changed, unbuilt, todo, found, seconds, cands, done, baseCount,
                   baseErr, worktree, entries, exit, started>>

\* The end of the loop: the second reviewer exits, 1 for a survivor; the first
\* asks the base tree about its survivors.
Judged ==
    /\ pc = "judge" /\ todo = {}
    /\ IF tool = "refusal" THEN Stop(IF survivors = <<>> THEN 0 ELSE 1)
       ELSE pc' = (IF survivors = <<>> THEN "decide" ELSE "base") /\ UNCHANGED exit
    /\ UNCHANGED <<tool, changed, unbuilt, todo, current, tree, found, verdict, survivors,
                   seconds, cands, done, baseCount, baseErr, worktree, entries, started>>

\* baseWorktree and the start of baseSurvivorCounts.  A base that cannot be
\* checked out, lacks a package its own ref has, is red or does not parse
\* answers nothing; a package that is new has no conditions there
\* (ClassifyAbsentPackages, baseConditionals).
BaseCheckout ==
    /\ pc = "base"
    /\ \/ /\ baseErr' = TRUE /\ pc' = "decide"
          /\ UNCHANGED <<cands, worktree>>
       \/ /\ \E n \in [Identities -> 0 .. MaxCands], new \in SUBSET {Pkg[s] : s \in Range(survivors)} :
                /\ \A i \in Identities :
                      ((\E s \in Site : Identity[s] = i /\ Pkg[s] \in new) \/
                       (\A s \in Range(survivors) : Identity[s] # i)) => n[i] = 0
                /\ cands' = n
          /\ worktree' = worktree + 1 /\ pc' = "ask"
          /\ UNCHANGED baseErr
    /\ UNCHANGED <<tool, changed, unbuilt, todo, current, tree, found, verdict, survivors,
                   seconds, done, baseCount, entries, exit, started>>

\* The identity the base is asked about next: the first survivor's whose turn
\* has not come.
waiting == {k \in DOMAIN survivors : Identity[survivors[k]] \notin done}
askedNext(k) == k \in waiting /\ \A j \in waiting : k <= j

\* One condition of that identity in the base, put to the base's own tests
\* (survivesIn): only one seen to survive there counts, and the search ends
\* when as many survived there as here.
BaseAsk ==
    /\ pc = "ask"
    /\ \E k \in DOMAIN survivors :
          LET asking == Identity[survivors[k]] IN
          /\ askedNext(k)
          /\ IF cands[asking] = 0 \/ baseCount[asking] >= CountByIdentity(asking)
             THEN done' = done \cup {asking} /\ UNCHANGED <<cands, baseCount>>
             ELSE /\ cands' = [cands EXCEPT ![asking] = @ - 1]
                  /\ \E survives \in BOOLEAN :
                        baseCount' = IF survives THEN [baseCount EXCEPT ![asking] = @ + 1] ELSE baseCount
                  /\ UNCHANGED done
    /\ UNCHANGED <<tool, pc, changed, unbuilt, todo, current, tree, found, verdict, survivors,
                   seconds, baseErr, worktree, entries, exit, started>>

\* The counts are in and the worktree is removed.
BaseAnswered ==
    /\ pc = "ask" /\ waiting = {}
    /\ worktree' = worktree - 1 /\ pc' = "decide"
    /\ UNCHANGED <<tool, changed, unbuilt, todo, current, tree, found, verdict, survivors,
                   seconds, cands, done, baseCount, baseErr, entries, exit, started>>

\* LoadManifest and ParseManifest: a manifest that is not there holds nothing,
\* one that cannot be trusted ends the run.
Load ==
    /\ pc = "decide"
    /\ \/ \E m \in Manifests : entries' = m /\ pc' = "exit" /\ UNCHANGED exit
       \/ Stop(1) /\ UNCHANGED entries
    /\ UNCHANGED <<tool, changed, unbuilt, todo, current, tree, found, verdict, survivors,
                   seconds, cands, done, baseCount, baseErr, worktree, started>>

\* The report is printed and the process exits.
Exit ==
    /\ pc = "exit" /\ Stop(ExitCodeWithEvidence)
    /\ UNCHANGED <<tool, changed, unbuilt, todo, current, tree, found, verdict, survivors,
                   seconds, cands, done, baseCount, baseErr, worktree, entries, started>>

\* The process is killed: what it had written stays as it is.
Kill ==
    /\ pc \notin {"idle", "ended"}
    /\ pc' = "idle" /\ current' = 0
    /\ UNCHANGED <<tool, changed, unbuilt, todo, tree, found, verdict, survivors, seconds,
                   cands, done, baseCount, baseErr, worktree, entries, exit, started>>

Next ==
    \/ Start \/ ListChanged \/ ListRefusals \/ ParseFails \/ Baseline \/ Neutralise
    \/ Judge \/ Judged \/ BaseCheckout \/ BaseAsk \/ BaseAnswered \/ Load \/ Exit \/ Kill

Spec == Init /\ [][Next]_vars

-----------------------------------------------------------------------------
\* A run that exits 0 has put every changed conditional this host builds to the
\* suite, and each that nothing noticed is one the base tree had too, by count
\* per identity, or carries evidence of its own; a base that could not answer
\* excuses none (PairSurvivors, ClassifySurvivors, ClassifyEvidenced).  A
\* condition found forced false already is passed over, so it is left out here.
PassIsEarned ==
    exit = 0 /\ tool = "guard" =>
        /\ unbuilt = {}
        /\ \A s \in analysed : verdict[s] \in {"caught"} \cup survived \/ s \in found
        /\ \A i \in Identities :
              LET bare == {s \in analysed : /\ verdict[s] \in survived /\ Identity[s] = i
                                            /\ Address[s] \notin entries}
              IN  Cardinality(bare) <= IF baseErr THEN 0 ELSE baseCount[i]
        /\ \A s \in analysed : verdict[s] = "caught" /\ Address[s] \in entries =>
              \E u \in analysed : verdict[u] \in survived \cup {"unchecked"} /\ Address[u] = Address[s]

\* The refusal reviewer exits 0 only over refusals of which each was noticed,
\* or is listed as not checked.
RefusalsNoticed ==
    exit = 0 /\ tool = "refusal" =>
        \A s \in changed : verdict[s] \in {"caught", "unchecked", "skipped"}

\* Except while a test runs, the tree is as the run found it: a reviewer that
\* was not killed leaves no condition forced false and no worktree behind; and
\* a suite that takes no longer than the baseline did is not stopped by the
\* bound derived from it.
TreeIsRestored ==
    /\ pc \notin {"idle", "test"} => tree = found
    /\ pc = "ended" /\ started = 1 => tree = {} /\ worktree = 0
    /\ seconds <= 600 => NeutralisedTimeout(seconds) >= seconds

\* What the two reviewers promise.
GateHolds == TypeOK /\ PassIsEarned /\ RefusalsNoticed /\ TreeIsRestored

==============================================================================
