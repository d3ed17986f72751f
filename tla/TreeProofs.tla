----------------------------- MODULE TreeProofs -----------------------------
(***************************************************************************)
(* Two commands that work on a source tree: the reviewers, which edit it   *)
(* in place, and the recorder, which copies it while others edit it; and,  *)
(* last, the rules document that commands fetch, install and price by.     *)
(*                                                                         *)
(* GuardCheck: what the two reviewers promise, for any set of              *)
(* conditionals, any suite, any base tree and any number of runs with      *)
(* kills between them.                                                     *)
(*                                                                         *)
(* The inductive invariant says where every conditional of the run is:     *)
(* still to be neutralised, neutralised now, or judged; that the list of   *)
(* survivors is exactly the set of conditionals whose verdict says so; and *)
(* that on disk the tree is the one the run found, but for the one         *)
(* condition whose tests are running.                                      *)
(***************************************************************************)
EXTENDS GuardCheck, Recording, Rules, FiniteSetTheorems, WellFoundedInduction, TLAPS

\* The conditionals a run has to judge.
Considered == IF tool = "guard" THEN analysed ELSE changed

\* The program counters at which a run has its list of conditionals.
Listed == {"baseline", "judge", "test", "base", "ask", "decide", "exit"}

\* Where each conditional of the run is.
Accounted ==
    pc \in Listed =>
        /\ \A s \in todo : verdict[s] = "unseen"
        /\ \A s \in Site : s \in Range(survivors) <=> verdict[s] \in survived
        /\ \A s \in Site : verdict[s] \in survived => s \in Considered
        /\ todo \subseteq Considered
        /\ \A s \in Considered :
              \/ s \in todo
              \/ pc = "test" /\ s = current
              \/ verdict[s] \in {"caught", "unchecked"} \cup survived
              \/ verdict[s] = "skipped" /\ (tool = "guard" => s \in found)
        /\ pc \notin {"baseline", "judge", "test"} => todo = {} /\ tool = "guard"
        /\ pc = "test" => /\ current \in Considered \ todo
                          /\ verdict[current] = "unseen"

\* A run that has not listed anything yet has judged nothing.
Fresh ==
    pc = "list" =>
        /\ survivors = <<>> /\ changed = {} /\ unbuilt = {} /\ todo = {}
        /\ verdict = [s \in Site |-> "unseen"]

\* The tree on disk and the base checkout.
OnDisk ==
    /\ pc \notin {"idle", "test"} => tree = found
    /\ pc = "test" => tree = found \cup {current}
    /\ started = 0 => pc = "idle" /\ tree = {} /\ worktree = 0
    /\ started = 1 /\ pc # "idle" => found = {} /\ worktree = IF pc = "ask" THEN 1 ELSE 0
    /\ pc = "ask" => worktree > 0

\* There is an exit status exactly when a run has ended.
Ended == exit # none <=> pc = "ended"

GuardInv ==
    /\ TypeOK /\ Accounted /\ Fresh /\ OnDisk /\ Ended
    /\ PassIsEarned /\ RefusalsNoticed

-----------------------------------------------------------------------------
\* What a list of survivors holds after one more.
LEMMA RangeOfAppend ==
  ASSUME NEW S, NEW q \in Seq(S), NEW e \in S, NEW s
  PROVE  s \in Range(Append(q, e)) <=> s \in Range(q) \/ s = e
<1>1. /\ DOMAIN q = 1 .. Len(q) /\ Len(q) \in Nat
      /\ DOMAIN Append(q, e) = 1 .. Len(q) + 1
      /\ \A i \in 1 .. Len(q) : Append(q, e)[i] = q[i]
      /\ Append(q, e)[Len(q) + 1] = e
  OBVIOUS
<1>2. ASSUME s \in Range(q) PROVE s \in Range(Append(q, e))
  <2>1. PICK i \in 1 .. Len(q) : s = q[i]
    BY <1>1, <1>2 DEF Range
  <2> QED BY <1>1, <2>1 DEF Range
<1>3. ASSUME s = e PROVE s \in Range(Append(q, e))
  <2>1. Len(q) + 1 \in DOMAIN Append(q, e)
    BY <1>1
  <2> QED BY <1>1, <1>3, <2>1 DEF Range
<1>4. ASSUME s \in Range(Append(q, e)) PROVE s \in Range(q) \/ s = e
  <2>1. PICK i \in 1 .. Len(q) + 1 : s = Append(q, e)[i]
    BY <1>1, <1>4 DEF Range
  <2>2. i \in 1 .. Len(q) \/ i = Len(q) + 1
    BY <1>1
  <2> QED BY <1>1, <2>1, <2>2 DEF Range
<1> QED BY <1>2, <1>3, <1>4

\* A set of naturals that is not empty has a least element.
LEMMA LeastNatural ==
  ASSUME NEW T \in SUBSET Nat, T # {}
  PROVE  \E m \in T : \A n \in T : m <= n
<1>1. PICK m \in T : \A n \in T : <<n, m>> \notin OpToRel(<, Nat)
  BY WFMin, NatLessThanWellFounded, Zenon
<1>2. \A n \in T : ~ (n < m)
  <2> SUFFICES ASSUME NEW n \in T, n < m PROVE FALSE
    OBVIOUS
  <2>1. <<n, m>> \in OpToRel(<, Nat)
    BY Zenon DEF OpToRel
  <2> QED BY <1>1, <2>1
<1> QED BY <1>2

\* One that is bounded has a greatest.
LEMMA GreatestNatural ==
  ASSUME NEW T \in SUBSET Nat, T # {}, NEW b \in Nat, \A n \in T : n <= b
  PROVE  \E m \in T : \A n \in T : n <= m
<1> DEFINE D == {b - n : n \in T}
<1>1. D \in SUBSET Nat
  OBVIOUS
<1>5. D # {}
  OBVIOUS
<1>2. PICK d \in D : \A e \in D : d <= e
  BY <1>1, <1>5, LeastNatural
<1>3. PICK m \in T : d = b - m
  OBVIOUS
<1>4. \A n \in T : b - m <= b - n
  BY <1>2, <1>3
<1> QED BY <1>4

\* The bound a neutralised suite gets is not below the time the baseline took.
LEMMA TimeoutCoversBaseline ==
  ASSUME NEW t \in Nat, t <= 600
  PROVE  NeutralisedTimeout(t) >= t
  BY DEF NeutralisedTimeout

\* Before the first run the tree is whole and nothing was judged.
LEMMA InitInv == Init => GuardInv
<1> SUFFICES ASSUME Init PROVE GuardInv
  OBVIOUS
<1>1. TypeOK
  <2>1. verdict \in [Site -> Verdicts] /\ survivors \in Seq(Site)
    BY DEF Init, Verdicts
  <2>2. cands \in [Identities -> 0 .. MaxCands] /\ baseCount \in [Identities -> Nat]
    BY GuardAssumption DEF Init
  <2>3. worktree \in Nat /\ started \in 0 .. MaxRuns /\ seconds \in Times \cup {0}
    BY GuardAssumption DEF Init
  <2>4. baseErr \in BOOLEAN /\ current \in Site \cup {0} /\ done \in SUBSET Identities
    BY DEF Init
  <2> QED BY <2>1, <2>2, <2>3, <2>4 DEF Init, TypeOK
<1>2. Accounted /\ Fresh /\ OnDisk /\ Ended
  BY DEF Init, Accounted, Fresh, OnDisk, Ended, Listed, none
<1>3. PassIsEarned /\ RefusalsNoticed
  BY DEF Init, PassIsEarned, RefusalsNoticed, none
<1> QED BY <1>1, <1>2, <1>3 DEF GuardInv

-----------------------------------------------------------------------------
\* Every step keeps the state typed.
LEMMA TypeStep ==
  ASSUME GuardInv, Next
  PROVE  TypeOK'
<1> USE GuardAssumption DEF GuardInv, TypeOK, Stop
<1>1. CASE Start
  <2>1. verdict' \in [Site -> Verdicts] /\ survivors' \in Seq(Site) /\ entries' = {}
    BY <1>1 DEF Start, Verdicts
  <2>2. cands' \in [Identities -> 0 .. MaxCands] /\ baseCount' \in [Identities -> Nat]
    BY <1>1 DEF Start
  <2>3. worktree' \in Nat /\ started' \in 0 .. MaxRuns /\ seconds' \in Times \cup {0}
    BY <1>1 DEF Start
  <2> QED BY <1>1, <2>1, <2>2, <2>3 DEF Start
<1>2. CASE ListChanged
  BY <1>2 DEF ListChanged, changedGoFiles, BuildableHere, BuiltOnSomePlatform
<1>3. CASE ListRefusals
  BY <1>3 DEF ListRefusals, refusalsIn, BuildableHere, Verdicts
<1>4. CASE ParseFails
  BY <1>4 DEF ParseFails
<1>5. CASE Baseline
  BY <1>5 DEF Baseline
<1>6. CASE Neutralise
  BY <1>6 DEF Neutralise, Verdicts
<1>7. CASE Judge
  <2>1. current \in Site
    BY <1>7 DEF Judge, Accounted, Listed, Considered, analysed, BuildableHere
  <2>2. PICK v \in Verdicts :
             /\ verdict' = [verdict EXCEPT ![current] = v]
             /\ survivors' = IF v \in survived THEN Append(survivors, current) ELSE survivors
    BY <1>7 DEF Judge
  <2>3. verdict' \in [Site -> Verdicts] /\ survivors' \in Seq(Site)
    BY <2>1, <2>2
  <2> QED BY <1>7, <2>3 DEF Judge
<1>8. CASE Judged
  BY <1>8 DEF Judged
<1>9. CASE BaseCheckout
  <2>1. cands' \in [Identities -> 0 .. MaxCands]
    <3>1. cands' = cands \/ \E n \in [Identities -> 0 .. MaxCands] : cands' = n
      BY <1>9 DEF BaseCheckout
    <3> QED BY <3>1
  <2>2. /\ baseErr' = TRUE \/ baseErr' = baseErr
        /\ worktree' = worktree \/ worktree' = worktree + 1
        /\ pc' = "decide" \/ pc' = "ask"
    BY <1>9, Zenon DEF BaseCheckout
  <2>3. baseErr' \in BOOLEAN
    BY <2>2, Zenon
  <2>4. worktree' \in Nat /\ pc' \in {"decide", "ask"}
    BY <2>2
  <2>5. /\ UNCHANGED <<tool, changed, unbuilt, todo, current, tree, found, verdict, survivors>>
        /\ UNCHANGED <<seconds, done, baseCount, entries, exit, started>>
    BY <1>9 DEF BaseCheckout
  <2> QED BY <2>1, <2>3, <2>4, <2>5
<1>10. CASE BaseAsk
  <2>1. PICK k \in DOMAIN survivors : LET asking == Identity[survivors[k]] IN
             IF cands[asking] = 0 \/ baseCount[asking] >= CountByIdentity(asking)
             THEN done' = done \cup {asking} /\ UNCHANGED <<cands, baseCount>>
             ELSE /\ cands' = [cands EXCEPT ![asking] = @ - 1]
                  /\ \E survives \in BOOLEAN :
                        baseCount' = IF survives THEN [baseCount EXCEPT ![asking] = @ + 1] ELSE baseCount
                  /\ UNCHANGED done
    BY <1>10 DEF BaseAsk
  <2>2. survivors[k] \in Site
    OBVIOUS
  <2>4. Identity[survivors[k]] \in Identities
    BY <2>2 DEF Identities
  <2>3. /\ done' \in SUBSET Identities /\ cands' \in [Identities -> 0 .. MaxCands]
        /\ baseCount' \in [Identities -> Nat]
    <3> DEFINE i == Identity[survivors[k]]
    <3>1. CASE done' = done \cup {i} /\ UNCHANGED <<cands, baseCount>>
      BY <2>4, <3>1
    <3>2. CASE cands[i] # 0 /\ cands' = [cands EXCEPT ![i] = @ - 1] /\ done' = done
      <4>1. cands' \in [Identities -> 0 .. MaxCands]
        <5>1. cands[i] - 1 \in 0 .. MaxCands
          BY <2>4, <3>2
        <5> QED BY <3>2, <5>1
      <4>2. baseCount' = baseCount \/ baseCount' = [baseCount EXCEPT ![i] = @ + 1]
        BY <2>1, <3>2
      <4>3. baseCount' \in [Identities -> Nat]
        <5>1. baseCount[i] + 1 \in Nat
          BY <2>4
        <5> QED BY <4>2, <5>1
      <4> QED BY <3>2, <4>1, <4>3
    <3> QED BY <2>1, <3>1, <3>2
  <2> QED BY <1>10, <2>3 DEF BaseAsk
<1>11. CASE BaseAnswered
  BY <1>11 DEF BaseAnswered, OnDisk
<1>12. CASE Load
  BY <1>12 DEF Load
<1>13. CASE Exit
  BY <1>13 DEF Exit, ExitCodeWithEvidence
<1>14. CASE Kill
  BY <1>14 DEF Kill
<1> QED BY <1>1, <1>2, <1>3, <1>4, <1>5, <1>6, <1>7, <1>8, <1>9, <1>10, <1>11, <1>12, <1>13, <1>14 DEF Next

\* Every step keeps the tree on disk, the base checkouts and the status in order.
LEMMA DiskStep ==
  ASSUME GuardInv, Next
  PROVE  OnDisk' /\ Ended'
<1> USE GuardAssumption DEF GuardInv, TypeOK, OnDisk, Ended, Stop, none
<1>1. CASE Start
  BY <1>1 DEF Start
<1>2. CASE ListChanged
  BY <1>2 DEF ListChanged
<1>3. CASE ListRefusals
  BY <1>3 DEF ListRefusals
<1>4. CASE ParseFails
  BY <1>4 DEF ParseFails
<1>5. CASE Baseline
  BY <1>5 DEF Baseline
<1>6. CASE Neutralise
  BY <1>6 DEF Neutralise, Accounted, Listed
<1>7. CASE Judge
  <2>1. tree = found \cup {current} /\ tree' = IF current \in found THEN tree ELSE tree \ {current}
    BY <1>7 DEF Judge
  <2>2. tree' = found
    BY <2>1
  <2> QED BY <1>7, <2>2 DEF Judge
<1>8. CASE Judged
  BY <1>8 DEF Judged
<1>9. CASE BaseCheckout
  BY <1>9 DEF BaseCheckout
<1>10. CASE BaseAsk
  BY <1>10 DEF BaseAsk
<1>11. CASE BaseAnswered
  BY <1>11 DEF BaseAnswered
<1>12. CASE Load
  BY <1>12 DEF Load
<1>13. CASE Exit
  BY <1>13 DEF Exit, ExitCodeWithEvidence
<1>14. CASE Kill
  BY <1>14 DEF Kill
<1> QED BY <1>1, <1>2, <1>3, <1>4, <1>5, <1>6, <1>7, <1>8, <1>9, <1>10, <1>11, <1>12, <1>13, <1>14 DEF Next

\* Every step keeps account of every conditional.
LEMMA AccountStep ==
  ASSUME GuardInv, Next
  PROVE  Accounted' /\ Fresh'
<1> USE GuardAssumption DEF GuardInv, Accounted, Fresh, Listed, Stop
<1>1. CASE Start
  BY <1>1 DEF Start
<1>2. CASE ListChanged
  <2>1. /\ pc = "list" /\ tool = "guard" /\ tool' = tool
        /\ verdict' = verdict /\ survivors' = survivors /\ pc' \in {"baseline", "ended"}
        /\ todo' = BuildableHere(changed')
    BY <1>2 DEF ListChanged, changedGoFiles
  <2>2. verdict' = [s \in Site |-> "unseen"] /\ Range(survivors') = {}
    BY <2>1 DEF Range
  <2>3. todo' \subseteq Site
    BY <1>2, TypeStep DEF TypeOK
  <2> QED BY <2>1, <2>2, <2>3 DEF Considered, analysed, survived
<1>3. CASE ListRefusals
  <2>1. /\ pc = "list" /\ tool = "refusal" /\ tool' = tool /\ pc' = "baseline"
        /\ survivors' = survivors /\ todo' = changed' \ Unmutable
        /\ verdict' = [s \in Site |-> IF s \in changed' \cap Unmutable THEN "skipped" ELSE "unseen"]
    BY <1>3 DEF ListRefusals
  <2>2. Range(survivors') = {} /\ changed' \subseteq Site
    BY <2>1, <1>3, TypeStep DEF Range, TypeOK
  <2> QED BY <2>1, <2>2 DEF Considered, survived
<1>4. CASE ParseFails
  BY <1>4 DEF ParseFails
<1>5. CASE Baseline
  BY <1>5 DEF Baseline, Considered, analysed
<1>6. CASE Neutralise
  <2>1. PICK s \in todo :
          /\ todo' = todo \ {s}
          /\ \/ current' = s /\ pc' = "test" /\ verdict' = verdict
             \/ /\ tool = "guard" /\ s \in tree /\ pc' = pc
                /\ verdict' = [verdict EXCEPT ![s] = "skipped"]
    BY <1>6 DEF Neutralise
  <2>2. pc = "judge" /\ UNCHANGED <<tool, changed, survivors, found>> /\ tree = found
    BY <1>6 DEF Neutralise, OnDisk
  <2>3. Considered' = Considered /\ verdict \in [Site -> Verdicts] /\ todo \subseteq Site
    BY <2>2 DEF Considered, analysed, TypeOK
  <2>4. CASE current' = s /\ pc' = "test" /\ verdict' = verdict
    BY <2>1, <2>2, <2>3, <2>4 DEF survived
  <2>5. CASE tool = "guard" /\ s \in tree /\ pc' = pc /\ verdict' = [verdict EXCEPT ![s] = "skipped"]
    <3>1. s \in Site /\ verdict[s] = "unseen" /\ verdict' \in [Site -> Verdicts]
      BY <2>2, <2>3, <2>5 DEF Verdicts
    <3>2. \A u \in Site : verdict'[u] = IF u = s THEN "skipped" ELSE verdict[u]
      BY <2>3, <2>5
    <3> QED BY <2>1, <2>2, <2>3, <2>5, <3>1, <3>2 DEF survived
  <2> QED BY <2>1, <2>4, <2>5
<1>7. CASE Judge
  <2>1. PICK v \in Verdicts \ {"unseen", "skipped"} :
             /\ verdict' = [verdict EXCEPT ![current] = v]
             /\ survivors' = IF v \in survived THEN Append(survivors, current) ELSE survivors
    BY <1>7 DEF Judge
  <2>2. /\ pc = "test" /\ pc' = "judge" /\ UNCHANGED <<tool, changed, todo, found>>
        /\ Considered' = Considered
    BY <1>7 DEF Judge, Considered, analysed
  <2>3. current \in Considered \ todo /\ verdict[current] = "unseen"
    BY <2>2
  <2>4. /\ current \in Site /\ verdict \in [Site -> Verdicts] /\ survivors \in Seq(Site)
        /\ Considered \subseteq Site
    BY <2>3 DEF Considered, analysed, BuildableHere, TypeOK
  <2>5. \A s \in Site : s \in Range(survivors') <=> verdict'[s] \in survived
    <3>1. CASE v \in survived
      <4>1. \A s : s \in Range(survivors') <=> s \in Range(survivors) \/ s = current
        BY <2>1, <2>4, <3>1, RangeOfAppend
      <4> QED BY <2>1, <2>2, <2>3, <2>4, <3>1, <4>1
    <3>2. CASE v \notin survived
      BY <2>1, <2>2, <2>3, <2>4, <3>2 DEF survived
    <3> QED BY <3>1, <3>2
  <2> QED BY <2>1, <2>2, <2>3, <2>4, <2>5 DEF Verdicts, survived
<1>8. CASE Judged
  BY <1>8 DEF Judged, Considered, analysed, TypeOK
<1>9. CASE BaseCheckout
  <2>1. /\ pc = "base" /\ pc' \in {"decide", "ask"}
        /\ UNCHANGED <<tool, changed, todo, verdict, survivors, found>>
    BY <1>9 DEF BaseCheckout
  <2> QED BY <2>1 DEF Considered, analysed
<1>10. CASE BaseAsk
  BY <1>10 DEF BaseAsk, Considered, analysed
<1>11. CASE BaseAnswered
  BY <1>11 DEF BaseAnswered, Considered, analysed
<1>12. CASE Load
  BY <1>12 DEF Load, Considered, analysed
<1>13. CASE Exit
  BY <1>13 DEF Exit
<1>14. CASE Kill
  BY <1>14 DEF Kill
<1> QED BY <1>1, <1>2, <1>3, <1>4, <1>5, <1>6, <1>7, <1>8, <1>9, <1>10, <1>11, <1>12, <1>13, <1>14 DEF Next

-----------------------------------------------------------------------------
\* The survivors of one identity that nothing but the base excuses are no more
\* than the base had: the last of them is excused by a count that includes all
\* of them.
LEMMA BareAreExcused ==
  ASSUME GuardInv, pc = "exit", unexplained = {}, NEW i \in Identities,
         NEW bare, bare = {s \in analysed : /\ verdict[s] \in survived /\ Identity[s] = i
                                            /\ Address[s] \notin entries}
  PROVE  Cardinality(bare) <= IF baseErr THEN 0 ELSE baseCount[i]
<1> DEFINE K == {k \in DOMAIN survivors : survivors[k] \in bare}
<1>1. /\ survivors \in Seq(Site) /\ DOMAIN survivors = 1 .. Len(survivors) /\ Len(survivors) \in Nat
      /\ baseCount[i] \in Nat /\ analysed \subseteq Site
  BY DEF GuardInv, TypeOK, analysed, BuildableHere
<1>2. \A s \in bare : \E k \in K : survivors[k] = s
  <2> SUFFICES ASSUME NEW s \in bare PROVE \E k \in K : survivors[k] = s
    OBVIOUS
  <2>1. s \in Site /\ s \in Range(survivors)
    BY <1>1 DEF GuardInv, Accounted, Listed
  <2> QED BY <2>1 DEF Range
<1>3. \A k \in K : ~baseErr /\ PairSurvivors(k)
  <2> SUFFICES ASSUME NEW k \in K, baseErr \/ ~PairSurvivors(k) PROVE FALSE
    OBVIOUS
  <2>1. survivors[k] \in introduced
    BY DEF introduced
  <2>2. survivors[k] \in evidenced
    BY <2>1 DEF unexplained
  <2> QED BY <2>2 DEF evidenced
<1>4. CASE bare = {}
  <2>1. Cardinality(bare) = 0
    BY <1>4, FS_EmptySet, Zenon
  <2> QED BY <1>1, <2>1
<1>5. CASE bare # {}
  <2>1. K \in SUBSET Nat /\ K # {} /\ \A k \in K : k <= Len(survivors)
    BY <1>1, <1>2, <1>5
  <2>2. PICK m \in K : \A k \in K : k <= m
    BY <2>1, <1>1, GreatestNatural
  <2> DEFINE J == {j \in 1 .. m : Identity[survivors[j]] = i}
             H == {j \in J : survivors[j] \in bare}
             f == [j \in H |-> survivors[j]]
  <2>3. Identity[survivors[m]] = i /\ m \in Nat /\ ~baseErr
    BY <1>1, <1>3, <2>1, <2>2
  <2>4. baseCount[i] >= Cardinality(J)
    BY <1>3, <2>2, <2>3 DEF PairSurvivors
  <2>5. IsFiniteSet(J) /\ Cardinality(J) \in Nat
    <3>1. IsFiniteSet(1 .. m)
      <4>1. 1 \in Int /\ m \in Int
        BY <2>3
      <4> QED BY <4>1, FS_Interval
    <3>2. J \in SUBSET (1 .. m)
      OBVIOUS
    <3> QED BY <3>1, <3>2, FS_Subset, FS_CardinalityType
  <2>6. IsFiniteSet(H) /\ Cardinality(H) <= Cardinality(J) /\ Cardinality(H) \in Nat
    <3>1. H \in SUBSET J
      OBVIOUS
    <3> QED BY <2>5, <3>1, FS_Subset, FS_CardinalityType
  <2>7. f \in Surjection(H, bare)
    <3>1. \A s \in bare : \E j \in H : f[j] = s
      <4> SUFFICES ASSUME NEW s \in bare PROVE \E j \in H : f[j] = s
        OBVIOUS
      <4>1. PICK k \in K : survivors[k] = s
        BY <1>2
      <4>2. k <= m /\ k \in 1 .. m /\ Identity[survivors[k]] = i
        BY <1>1, <2>1, <2>2, <4>1
      <4>3. k \in H
        BY <4>1, <4>2
      <4> QED BY <4>1, <4>3
    <3>2. f \in [H -> bare]
      OBVIOUS
    <3> HIDE DEF f
    <3> QED BY <3>1, <3>2 DEF Surjection
  <2>8. Cardinality(bare) <= Cardinality(H) /\ IsFiniteSet(bare)
    <3> HIDE DEF f, H
    <3> QED BY <2>6, <2>7, FS_Surjection
  <2>9. Cardinality(bare) \in Nat
    BY <2>8, FS_CardinalityType
  <2> HIDE DEF H, J
  <2> QED BY <1>1, <2>3, <2>4, <2>5, <2>6, <2>8, <2>9
<1> QED BY <1>4, <1>5

\* An exit status of 0 is earned when it is given.
LEMMA ExitEarned ==
  ASSUME GuardInv, Exit, exit' = 0
  PROVE  PassIsEarned'
<1>1. /\ pc = "exit" /\ unexplained = {} /\ unchecked = {} /\ unbuilt = {} /\ stale = {}
  BY DEF Exit, Stop, ExitCodeWithEvidence
<1>2. UNCHANGED <<tool, changed, unbuilt, found, verdict, survivors, baseCount, baseErr, entries>>
  BY DEF Exit
<1>3. tool = "guard" /\ todo = {} /\ Considered = analysed /\ analysed \subseteq Site
  BY <1>1 DEF GuardInv, TypeOK, Accounted, Listed, Considered, analysed, BuildableHere
<1>4. \A s \in analysed : verdict[s] \in {"caught"} \cup survived \/ s \in found
  BY <1>1, <1>3 DEF GuardInv, Accounted, Listed, unchecked
<1>5. \A i \in Identities :
        Cardinality({s \in analysed : /\ verdict[s] \in survived /\ Identity[s] = i
                                      /\ Address[s] \notin entries})
          <= IF baseErr THEN 0 ELSE baseCount[i]
  BY <1>1, BareAreExcused
<1>6. \A s \in analysed : verdict[s] = "caught" /\ Address[s] \in entries =>
         \E u \in analysed : verdict[u] \in survived \cup {"unchecked"} /\ Address[u] = Address[s]
  <2> SUFFICES ASSUME NEW s \in analysed, Address[s] \in entries
               PROVE  \E u \in analysed : /\ verdict[u] \in survived \cup {"unchecked"}
                                          /\ Address[u] = Address[s]
    OBVIOUS
  <2>1. \A u \in Range(survivors) : u \in analysed /\ verdict[u] \in survived
    <3>1. Range(survivors) \subseteq Site
      BY DEF GuardInv, TypeOK, Range
    <3> QED BY <1>1, <1>3, <3>1 DEF GuardInv, Accounted, Listed
  <2>2. introduced \subseteq Range(survivors)
    BY DEF introduced, Range
  <2>3. s \notin caught
    <3> SUFFICES ASSUME s \in caught PROVE FALSE
      OBVIOUS
    <3>1. Address[s] \in {Address[e] : e \in evidenced}
      BY <1>1 DEF stale
    <3>2. PICK e \in evidenced : Address[s] = Address[e]
      BY <3>1
    <3>3. e \in Range(survivors)
      BY <2>2 DEF evidenced
    <3> QED BY <3>2, <3>3 DEF caught
  <2>4. PICK u \in Range(survivors) \cup unchecked : Address[s] = Address[u]
    BY <2>3 DEF caught
  <2> QED BY <1>1, <2>1, <2>4
<1>7. analysed' = analysed
  BY <1>2 DEF analysed
<1> QED BY <1>1, <1>2, <1>4, <1>5, <1>6, <1>7 DEF PassIsEarned

\* Every step keeps what an exit status of 0 stands for.
LEMMA EarnedStep ==
  ASSUME GuardInv, Next
  PROVE  PassIsEarned' /\ RefusalsNoticed'
<1>1. CASE exit' # 0
  BY <1>1 DEF PassIsEarned, RefusalsNoticed
<1>2. CASE exit' = 0
  <2>1. pc' = "ended" /\ pc # "ended"
    <3>1. pc' = "ended"
      BY <1>2, DiskStep DEF Ended, none
    <3>2. pc = "ended" => Start
      BY DEF Next, Start, ListChanged, ListRefusals, ParseFails, Baseline, Neutralise, Judge, Judged,
           BaseCheckout, BaseAsk, BaseAnswered, Load, Exit, Kill
    <3> QED BY <3>1, <3>2 DEF Start
  <2>2. exit = none /\ none # 0 /\ none # 1 /\ none # 2
    BY <2>1 DEF GuardInv, Ended, none
  <2>3. ListChanged \/ Judged \/ Exit
    BY <1>2, <2>1, <2>2 DEF Next, Start, ListRefusals, ParseFails, Stop,
         Baseline, Neutralise, Judge, BaseCheckout, BaseAsk, BaseAnswered, Load, Kill
  <2>4. CASE ListChanged
    <3>1. tool' = "guard" /\ baseCount' = baseCount /\ baseErr' = baseErr
      BY <2>4 DEF ListChanged
    <3>2. unbuilt' = {} /\ analysed' = {}
      BY <1>2, <2>1, <2>2, <2>4 DEF ListChanged, Stop, analysed
    <3>3. \A i \in Identities : baseCount[i] \in Nat
      BY DEF GuardInv, TypeOK
    <3> QED BY <3>1, <3>2, <3>3, FS_EmptySet DEF PassIsEarned, RefusalsNoticed
  <2>5. CASE Judged
    <3>1. /\ tool = "refusal" /\ survivors = <<>> /\ todo = {} /\ pc = "judge"
          /\ UNCHANGED <<tool, changed, verdict>>
      BY <1>2, <2>1, <2>2, <2>5 DEF Judged, Stop
    <3>2. Range(survivors) = {} /\ changed \subseteq Site /\ Considered = changed
      BY <3>1 DEF Range, GuardInv, TypeOK, Considered
    <3>3. \A s \in changed : verdict[s] \in {"caught", "unchecked", "skipped"}
      BY <3>1, <3>2 DEF GuardInv, Accounted, Listed
    <3> QED BY <3>1, <3>3 DEF PassIsEarned, RefusalsNoticed
  <2>6. CASE Exit
    <3>1. tool' = "guard"
      BY <2>6 DEF Exit, GuardInv, Accounted, Listed
    <3> QED BY <1>2, <2>6, <3>1, ExitEarned DEF RefusalsNoticed
  <2> QED BY <2>3, <2>4, <2>5, <2>6
<1> QED BY <1>1, <1>2

-----------------------------------------------------------------------------
\* GuardInv holds of every reachable state.
THEOREM GuardInvariant == Spec => []GuardInv
<1>1. GuardInv /\ [Next]_vars => GuardInv'
  <2> SUFFICES ASSUME GuardInv, [Next]_vars PROVE GuardInv'
    OBVIOUS
  <2>1. CASE Next
    BY <2>1, TypeStep, DiskStep, AccountStep, EarnedStep DEF GuardInv
  <2>2. CASE UNCHANGED vars
    BY <2>2 DEF vars, GuardInv, TypeOK, Accounted, Fresh, OnDisk, Ended, Considered, analysed,
         Listed, PassIsEarned, RefusalsNoticed
  <2> QED BY <2>1, <2>2
<1> QED BY <1>1, InitInv, PTL DEF Spec

\* A reviewer that exits 0 has put every changed conditional to the suite and
\* left none unexcused, a refusal reviewer that does has seen each refusal
\* noticed, and one that was not killed leaves the tree as it found it
\* (scripts/guard-reachability, scripts/refusal-reachability): for any sites,
\* suite, base tree, manifest and sequence of kills.
THEOREM GateAlwaysHolds == Spec => []GateHolds
<1>1. GuardInv => GateHolds
  <2> SUFFICES ASSUME GuardInv PROVE TreeIsRestored
    BY DEF GuardInv, GateHolds
  <2>1. pc \notin {"idle", "test"} => tree = found
    BY DEF GuardInv, OnDisk
  <2>2. pc = "ended" /\ started = 1 => tree = {} /\ worktree = 0
    BY <2>1 DEF GuardInv, OnDisk
  <2>3. seconds <= 600 => NeutralisedTimeout(seconds) >= seconds
    BY GuardAssumption, TimeoutCoversBaseline DEF GuardInv, TypeOK
  <2> QED BY <2>1, <2>2, <2>3 DEF TreeIsRestored
<1> QED BY <1>1, GuardInvariant, PTL

-----------------------------------------------------------------------------
(* Recording of a tree.  An entry nobody has edited is as the first walk met *)
(* it; one edited once, while the tree was copied, is not, and the second    *)
(* walk, which starts when the copy is complete, meets it changed.           *)

Owning == {"copy", "described", "written", "recorded", "dead"}

\* Where a recorder is and what it knows of the tree.
Hashing(p) ==
    step[p] = "before" =>
        /\ asked[p] \in Operands /\ Len(seen[p]) <= Size
        /\ \A i \in 1..Len(seen[p]) : edits[i] = 0 => seen[p][i] = source[i]

\* The entry that gives an edit during the copy away.
Shows(p, i) ==
    \/ edits[i] > 1
    \/ /\ edits[i] = 1 /\ before[p][i] # source[i]
       /\ i <= Len(seen[p]) => seen[p][i] = source[i]

CopyKnows(p) ==
    step[p] = "copy" =>
        /\ Len(out.tree) <= Size /\ Len(seen[p]) <= Size
        /\ Len(out.tree) < Size => Len(seen[p]) = 0
        /\ \A i \in 1..Size : edits[i] = 0 => before[p][i] = source[i]
        /\ drifted => \E i \in 1..Size : Shows(p, i)

AtWork(p) ==
    step[p] \in {"copy", "described", "written"} =>
        /\ asked[p] \in Operands /\ out.run = Nil
        /\ Len(before[p]) = Size
        /\ before[p] = Substrate \/ asked[p] = "modified"

Described(p) ==
    step[p] \in {"described", "written"} =>
        /\ out.provenance = <<out.tree, out.tree, out.tree>> /\ Len(out.tree) = Size
        /\ drifted => \E i \in 1..Size : edits[i] > 1
        /\ out.tree = Substrate \/ asked[p] = "modified"
        /\ step[p] = "written" => out.tmp = asked[p]

NotBegun(p) == step[p] = "start" => seen[p] = <<>>

Owner(p) ==
    /\ out.owner = p <=> step[p] \in Owning
    /\ step[p] = "recorded" => out.run # Nil

Directory ==
    /\ out.owner = Nil => out = NoOut
    /\ out.run # Nil => out.owner # Nil /\ step[out.owner] = "recorded"
    /\ score = "read" => out.run # Nil

Local(p) ==
    Hashing(p) /\ CopyKnows(p) /\ AtWork(p) /\ Described(p) /\ NotBegun(p) /\ Owner(p)

RecordingInv == RecordingIsSound /\ Directory /\ \A p \in Recorder : Local(p)

LEMMA RecordInitInv == RecordInit => RecordingInv
<1> SUFFICES ASSUME RecordInit PROVE RecordingInv
  OBVIOUS
<1> USE RecordingAssumption DEF RecordInit
<1>1. RecordTypeOK
  <2>1. out \in RunDirectory
    BY DEF RunDirectory, NoOut, Nil, Operands
  <2>2. step \in [Recorder -> {"start", "before", "copy", "described", "written", "recorded",
                              "refused", "dead"}]
        /\ asked \in [Recorder -> Operands \cup {Nil}]
        /\ seen \in [Recorder -> Seq(0..1)] /\ before \in [Recorder -> Seq(0..1)]
        /\ edits \in [1..Size -> 0..MaxEdits]
    OBVIOUS
  <2> QED
    BY <2>1, <2>2 DEF RecordTypeOK
<1>2. RecordedIsReal /\ RefusalIsClean /\ VerdictIsSupported /\ Directory
  BY DEF RecordedIsReal, RefusalIsClean, VerdictIsSupported, Directory, NoOut, Nil
<1>3. ASSUME NEW p \in Recorder PROVE Local(p)
  BY DEF Local, Hashing, CopyKnows, AtWork, Described, NotBegun, Owner, Owning, NoOut, Nil
<1> QED
  BY <1>1, <1>2, <1>3 DEF RecordingInv, RecordingIsSound

LEMMA RecordTypeStep ==
  ASSUME RecordingInv, [RecordNext]_recordingVars PROVE RecordTypeOK'
<1> USE RecordingAssumption DEF RecordingInv, RecordingIsSound, RecordTypeOK
<1>0. /\ out.owner \in Recorder \cup {Nil} /\ out.tree \in Seq(0..1)
      /\ out.provenance \in Seq(Seq(0..1)) /\ out.tmp \in Operands \cup {Nil}
      /\ out.run \in Operands \cup {Nil}
  BY DEF RunDirectory
<1>1. CASE Edit
  <2>1. PICK i \in 1..Size : /\ edits[i] < MaxEdits /\ edits' = [edits EXCEPT ![i] = @ + 1]
                             /\ source' = [source EXCEPT ![i] = 1 - @]
    BY <1>1 DEF Edit
  <2>2. edits[i] + 1 \in 0..MaxEdits /\ 1 - source[i] \in 0..1
    <3>1. edits[i] \in 0..MaxEdits /\ source[i] \in 0..1
      OBVIOUS
    <3>2. edits[i] < MaxEdits
      BY <2>1
    <3> HIDE DEF RecordTypeOK, RecordingInv, RecordingIsSound
    <3> QED
      BY <3>1, <3>2
  <2>3. edits' \in [1..Size -> 0..MaxEdits]
    BY <2>1, <2>2
  <2>4. source' \in [1..Size -> 0..1]
    BY <2>1, <2>2
  <2>5. drifted' \in BOOLEAN
    BY <1>1, Zenon DEF Edit
  <2> QED
    BY <1>1, <2>3, <2>4, <2>5 DEF Edit
<1>2. ASSUME NEW p \in Recorder,
             Check(p) \/ HashBefore(p) \/ MakeOut(p) \/ RefuseEarly(p)
      PROVE  RecordTypeOK'
  <2>1. CASE Check(p)
    BY <2>1 DEF Check, Go
  <2>2. CASE HashBefore(p)
    <3>1. Append(seen[p], source[Len(seen[p]) + 1]) \in Seq(0..1)
      BY <2>2 DEF HashBefore
    <3> QED
      BY <2>2, <3>1 DEF HashBefore, Meet
  <2>3. CASE MakeOut(p)
    <3>1. out' \in RunDirectory
      BY <2>3 DEF MakeOut, NoOut, RunDirectory
    <3>2. step' \in [Recorder -> {"start", "before", "copy", "described", "written",
                                  "recorded", "refused", "dead"}]
      BY <2>3 DEF MakeOut, Go
    <3>3. seen' \in [Recorder -> Seq(0..1)] /\ before' \in [Recorder -> Seq(0..1)]
      BY <2>3 DEF MakeOut
    <3> QED
      BY <2>3, <3>1, <3>2, <3>3 DEF MakeOut
  <2>4. CASE RefuseEarly(p)
    BY <2>4 DEF RefuseEarly, Leave
  <2> QED
    BY <1>2, <2>1, <2>2, <2>3, <2>4
<1>3. ASSUME NEW p \in Recorder,
             \/ CopyEntry(p) \/ HashAfter(p) \/ WriteProvenance(p) \/ WriteTmp(p)
             \/ RenameRun(p) \/ RefuseLate(p) \/ Die(p)
      PROVE  RecordTypeOK'
  <2>1. CASE CopyEntry(p)
    <3>1. Append(out.tree, source[Len(out.tree) + 1]) \in Seq(0..1)
      BY <1>0, <2>1 DEF CopyEntry
    <3>2. out' \in RunDirectory
      BY <2>1, <3>1 DEF CopyEntry, RunDirectory
    <3> QED
      BY <2>1, <3>2 DEF CopyEntry
  <2>2. CASE HashAfter(p)
    <3>1. Append(seen[p], source[Len(seen[p]) + 1]) \in Seq(0..1)
      BY <2>2 DEF HashAfter
    <3> QED
      BY <2>2, <3>1 DEF HashAfter, Meet
  <2>3. CASE WriteProvenance(p)
    <3>1. <<before[p], out.tree, seen[p]>> \in Seq(Seq(0..1))
      BY <1>0
    <3>2. out' \in RunDirectory
      BY <2>3, <3>1 DEF WriteProvenance, RunDirectory
    <3> QED
      BY <2>3, <3>2 DEF WriteProvenance, Go
  <2>4. CASE WriteTmp(p)
    <3>1. out' \in RunDirectory
      BY <2>4 DEF WriteTmp, RunDirectory
    <3> QED
      BY <2>4, <3>1 DEF WriteTmp, Go
  <2>5. CASE RenameRun(p)
    <3>1. out' \in RunDirectory
      BY <1>0, <2>5 DEF RenameRun, RunDirectory
    <3> QED
      BY <2>5, <3>1 DEF RenameRun, Leave
  <2>6. CASE RefuseLate(p)
    <3>1. NoOut \in RunDirectory
      BY DEF NoOut, RunDirectory
    <3> QED
      BY <2>6, <3>1 DEF RefuseLate, Leave
  <2>7. CASE Die(p)
    BY <2>7 DEF Die, Leave
  <2> QED
    BY <1>3, <2>1, <2>2, <2>3, <2>4, <2>5, <2>6, <2>7
<1>4. CASE ScoreReads \/ ScoreJudges
  BY <1>4 DEF ScoreReads, ScoreJudges
<1>5. CASE UNCHANGED recordingVars
  BY <1>5 DEF recordingVars
<1> QED
  BY <1>1, <1>2, <1>3, <1>4, <1>5 DEF RecordNext

LEMMA RecordLocalStep ==
  ASSUME RecordingInv, RecordTypeOK', NEW q \in Recorder, [RecordNext]_recordingVars
  PROVE  Local(q)'
<1> USE RecordingAssumption
<1>0. /\ RecordTypeOK /\ Local(q) /\ Directory
      /\ out.tree \in Seq(0..1) /\ seen[q] \in Seq(0..1) /\ before[q] \in Seq(0..1)
      /\ Len(out.tree) \in Nat /\ Len(seen[q]) \in Nat /\ Len(before[q]) \in Nat
      /\ \A i \in 1..Size : edits[i] \in Nat /\ source[i] \in 0..1
  <2>1. RecordTypeOK /\ Local(q) /\ Directory
    BY DEF RecordingInv, RecordingIsSound
  <2>2. out.tree \in Seq(0..1) /\ seen[q] \in Seq(0..1) /\ before[q] \in Seq(0..1)
    BY <2>1 DEF RecordTypeOK, RunDirectory
  <2>3. \A i \in 1..Size : edits[i] \in Nat /\ source[i] \in 0..1
    BY <2>1 DEF RecordTypeOK
  <2> QED
    BY <2>1, <2>2, <2>3
<1> USE DEF Local
<1>1. CASE Edit
  <2>1. PICK i \in 1..Size : /\ edits[i] < MaxEdits /\ edits' = [edits EXCEPT ![i] = @ + 1]
                             /\ source' = [source EXCEPT ![i] = 1 - @]
    BY <1>1 DEF Edit
  <2>2. /\ edits'[i] = edits[i] + 1 /\ source'[i] = 1 - source[i] /\ edits'[i] # 0
        /\ \A j \in 1..Size : j # i => edits'[j] = edits[j] /\ source'[j] = source[j]
    BY <1>0, <2>1 DEF RecordTypeOK
  <2>3. UNCHANGED <<step, asked, seen, before, out, score>>
    BY <1>1 DEF Edit
  <2>4. Hashing(q)'
    BY <1>0, <2>2, <2>3 DEF Hashing
  <2>5. CopyKnows(q)'
    <3> SUFFICES ASSUME step[q] = "copy" PROVE CopyKnows(q)'
      BY <2>3 DEF CopyKnows
    <3>1. \A j \in 1..Size : edits'[j] = 0 => before'[q][j] = source'[j]
      BY <1>0, <2>2, <2>3 DEF CopyKnows
    <3>2. \A j \in 1..Size : Shows(q, j) => Shows(q, j)'
      BY <1>0, <2>2, <2>3 DEF Shows
    <3>3. Copying => Shows(q, i)'
      BY <1>0, <2>2, <2>3 DEF Shows, CopyKnows, Copying
    <3>4. drifted' => drifted \/ Copying
      BY <1>1, Zenon DEF Edit
    <3> QED
      BY <1>0, <2>3, <3>1, <3>2, <3>3, <3>4 DEF CopyKnows
  <2>6. Described(q)'
    <3>1. (\E j \in 1..Size : edits[j] > 1) => (\E j \in 1..Size : edits'[j] > 1)
      BY <1>0, <2>2
    <3>2. drifted' => drifted \/ Copying
      BY <1>1, Zenon DEF Edit
    <3> QED
      BY <1>0, <2>3, <3>1, <3>2 DEF Described, Copying
  <2> QED
    BY <1>0, <2>3, <2>4, <2>5, <2>6 DEF AtWork, NotBegun, Owner
<1>2. ASSUME NEW p \in Recorder, Check(p) PROVE Local(q)'
  <2>1. CASE p = q
    BY <1>0, <1>2, <2>1 DEF Check, Go, Hashing, CopyKnows, AtWork, Described, NotBegun, Owner, Owning, RecordTypeOK, Nil
  <2>2. CASE p # q
    BY <1>0, <1>2, <2>2 DEF Check, Go, Hashing, CopyKnows, Shows, AtWork, Described, NotBegun, Owner, Owning, RecordTypeOK
  <2> QED
    BY <2>1, <2>2
<1>3. ASSUME NEW p \in Recorder, HashBefore(p) PROVE Local(q)'
  <2>1. CASE p = q
    <3>1. /\ seen'[q] = Append(seen[q], source[Len(seen[q]) + 1]) /\ step[q] = "before"
          /\ Len(seen[q]) < Size
      BY <1>3, <2>1 DEF HashBefore, Meet, RecordTypeOK, RecordingInv, RecordingIsSound
    <3>2. Hashing(q)'
      BY <1>0, <1>3, <3>1 DEF Hashing, HashBefore
    <3> QED
      BY <1>0, <1>3, <3>1, <3>2 DEF HashBefore, CopyKnows, AtWork, Described, NotBegun, Owner
  <2>2. CASE p # q
    <3>1. seen'[q] = seen[q] /\ UNCHANGED <<source, step, asked, before, out, score, edits, drifted>>
      BY <1>3, <2>2 DEF HashBefore, Meet, RecordTypeOK, RecordingInv, RecordingIsSound
    <3> QED
      BY <1>0, <3>1 DEF Hashing, CopyKnows, Shows, AtWork, Described, NotBegun, Owner
  <2> QED
    BY <2>1, <2>2
<1>4. ASSUME NEW p \in Recorder, MakeOut(p) PROVE Local(q)'
  <2>1. CASE p = q
    <3>1. /\ step[q] = "before" /\ step'[q] = "copy" /\ Len(seen[q]) = Size /\ seen'[q] = <<>>
          /\ before'[q] = seen[q] /\ out'.owner = q /\ out'.tree = <<>> /\ out'.run = Nil
          /\ drifted' = FALSE /\ UNCHANGED <<source, asked, score, edits>>
          /\ seen[q] = Substrate \/ asked[q] = "modified"
      BY <1>0, <1>4, <2>1 DEF MakeOut, Go, NoOut, RecordTypeOK
    <3> HIDE DEF Local
    <3>2. Hashing(q)' /\ CopyKnows(q)' /\ AtWork(q)' /\ Described(q)' /\ NotBegun(q)' /\ Owner(q)'
      BY <1>0, <3>1 DEF Hashing, CopyKnows, AtWork, Described, NotBegun, Owner, Owning, Local
    <3> QED
      BY <3>2 DEF Local
  <2>2. CASE p # q
    <3>1. /\ step'[q] = step[q] /\ seen'[q] = seen[q] /\ before'[q] = before[q] /\ asked' = asked
          /\ UNCHANGED <<source, score, edits>> /\ out'.owner = p /\ out.owner = Nil
      BY <1>0, <1>4, <2>2 DEF MakeOut, Go, NoOut, RecordTypeOK
    <3>2. step[q] \notin Owning
      BY <1>0, <3>1 DEF Owner, Nil
    <3> QED
      BY <1>0, <2>2, <3>1, <3>2 DEF Hashing, CopyKnows, AtWork, Described, NotBegun, Owner, Owning
  <2> QED
    BY <2>1, <2>2
<1>5. ASSUME NEW p \in Recorder, RefuseEarly(p) PROVE Local(q)'
  <2>1. CASE p = q
    BY <1>0, <1>5, <2>1 DEF RefuseEarly, Leave, Hashing, CopyKnows, AtWork, Described, NotBegun, Owner, Owning, RecordTypeOK
  <2>2. CASE p # q
    <3>1. /\ step'[q] = step[q] /\ seen'[q] = seen[q] /\ before'[q] = before[q] /\ asked'[q] = asked[q]
          /\ UNCHANGED <<source, out, score, edits, drifted>>
      BY <1>0, <1>5, <2>2 DEF RefuseEarly, Leave, RecordTypeOK
    <3> QED
      BY <1>0, <3>1 DEF Hashing, CopyKnows, Shows, AtWork, Described, NotBegun, Owner
  <2> QED
    BY <2>1, <2>2
<1>6. ASSUME NEW p \in Recorder, step[p] \in {"copy", "described", "written"}, p # q,
             step'[q] = step[q], seen'[q] = seen[q], asked'[q] = asked[q],
             UNCHANGED <<source, edits>>, out'.owner \in {p, Nil}
      PROVE  Local(q)'
  <2>1. out.owner = p
    BY <1>6 DEF RecordingInv, Local, Owner, Owning
  <2>2. step[q] \notin Owning
    BY <1>0, <1>6, <2>1 DEF Owner
  <2> QED
    BY <1>0, <1>6, <2>1, <2>2 DEF Hashing, CopyKnows, AtWork, Described, NotBegun, Owner, Owning, Nil
<1>7. ASSUME CopyEntry(q) PROVE Local(q)'
  <2>1. /\ step[q] = "copy" /\ Len(out.tree) < Size
        /\ out'.tree = Append(out.tree, source[Len(out.tree) + 1])
        /\ out'.owner = out.owner /\ out'.run = out.run
        /\ UNCHANGED <<source, step, asked, seen, before, score, edits, drifted>>
    BY <1>0, <1>7 DEF CopyEntry, RecordTypeOK, RunDirectory
  <2>2. Len(out'.tree) = Len(out.tree) + 1
    BY <1>0, <2>1
  <2> QED
    BY <1>0, <2>1, <2>2 DEF Hashing, CopyKnows, Shows, AtWork, Described, NotBegun, Owner
<1>8. ASSUME HashAfter(q) PROVE Local(q)'
  <2>1. /\ step[q] = "copy" /\ Len(out.tree) = Size /\ Len(seen[q]) < Size
        /\ seen'[q] = Append(seen[q], source[Len(seen[q]) + 1])
        /\ UNCHANGED <<source, step, asked, before, out, score, edits, drifted>>
    BY <1>0, <1>8 DEF HashAfter, Meet, RecordTypeOK
  <2>2. /\ Len(seen'[q]) = Len(seen[q]) + 1
        /\ seen'[q][Len(seen[q]) + 1] = source[Len(seen[q]) + 1]
        /\ \A i \in 1..Len(seen[q]) : seen'[q][i] = seen[q][i]
    BY <1>0, <2>1
  <2>3. \A i \in 1..Size : Shows(q, i) => Shows(q, i)'
    BY <1>0, <2>1, <2>2 DEF Shows
  <2> QED
    BY <1>0, <2>1, <2>2, <2>3 DEF Hashing, CopyKnows, AtWork, Described, NotBegun, Owner
<1>9. ASSUME WriteProvenance(q) PROVE Local(q)'
  <2>1. /\ step[q] = "copy" /\ step'[q] = "described"
        /\ Len(out.tree) = Size /\ Len(seen[q]) = Size
        /\ out.tree = before[q] /\ seen[q] = before[q]
        /\ UNCHANGED <<source, asked, seen, before, score, edits, drifted>>
        /\ out'.provenance = <<before[q], out.tree, seen[q]>> /\ out'.owner = out.owner
        /\ out'.tree = out.tree /\ out'.run = out.run /\ out'.tmp = out.tmp
    BY <1>0, <1>9 DEF WriteProvenance, Compared, Stable, Go, RecordTypeOK, RunDirectory
  <2>2. \A i \in 1..Size : Shows(q, i) => edits[i] > 1
    BY <1>0, <2>1 DEF Shows
  <2>3. Described(q)'
    BY <1>0, <2>1, <2>2 DEF Described, CopyKnows, AtWork
  <2> QED
    BY <1>0, <2>1, <2>3 DEF Hashing, CopyKnows, AtWork, NotBegun, Owner, Owning
<1>10. ASSUME WriteTmp(q) PROVE Local(q)'
  <2>1. /\ step[q] = "described" /\ step'[q] = "written" /\ out'.tmp = asked[q]
        /\ UNCHANGED <<source, asked, seen, before, score, edits, drifted>>
        /\ out'.provenance = out.provenance /\ out'.owner = out.owner
        /\ out'.tree = out.tree /\ out'.run = out.run
    BY <1>0, <1>10 DEF WriteTmp, Go, RecordTypeOK, RunDirectory
  <2> QED
    BY <1>0, <2>1 DEF Hashing, CopyKnows, AtWork, Described, NotBegun, Owner, Owning
<1>11. ASSUME RenameRun(q) PROVE Local(q)'
  <2>1. /\ step[q] = "written" /\ step'[q] = "recorded" /\ out'.owner = out.owner
        /\ out'.run = out.tmp
    BY <1>0, <1>11 DEF RenameRun, Leave, RecordTypeOK, RunDirectory
  <2>2. out.tmp \in Operands
    BY <1>0, <2>1 DEF Described, AtWork
  <2> QED
    BY <1>0, <2>1, <2>2
    DEF Hashing, CopyKnows, AtWork, Described, NotBegun, Owner, Owning, Operands, Nil
<1>12. ASSUME RefuseLate(q) PROVE Local(q)'
  <2>1. step'[q] = "refused" /\ out'.owner = Nil
    BY <1>0, <1>12 DEF RefuseLate, Leave, RecordTypeOK, NoOut
  <2> QED
    BY <1>0, <2>1 DEF Hashing, CopyKnows, AtWork, Described, NotBegun, Owner, Owning, Nil
<1>13. ASSUME Die(q) PROVE Local(q)'
  <2>1. step'[q] = "dead" /\ out' = out /\ step[q] \in Owning
    BY <1>0, <1>13 DEF Die, Leave, RecordTypeOK, Owning
  <2> QED
    BY <1>0, <2>1 DEF Hashing, CopyKnows, AtWork, Described, NotBegun, Owner, Owning
<1>14. ASSUME NEW p \in Recorder,
              \/ CopyEntry(p) \/ HashAfter(p) \/ WriteProvenance(p) \/ WriteTmp(p)
              \/ RenameRun(p) \/ RefuseLate(p) \/ Die(p)
       PROVE  Local(q)'
  <2>1. CASE p = q
    BY <1>14, <1>7, <1>8, <1>9, <1>10, <1>11, <1>12, <1>13, <2>1
  <2>2. CASE p # q
    <3>1. step[p] \in {"copy", "described", "written"} /\ UNCHANGED <<source, edits>>
      BY <1>14 DEF CopyEntry, HashAfter, WriteProvenance, Compared, WriteTmp, RenameRun,
                   RefuseLate, Die, Go
    <3>2. out.owner = p
      BY <3>1 DEF RecordingInv, Local, Owner, Owning
    <3>3. out'.owner \in {p, Nil}
      <4>1. CASE CopyEntry(p) \/ WriteProvenance(p) \/ WriteTmp(p) \/ RenameRun(p)
        BY <1>0, <3>2, <4>1
        DEF CopyEntry, WriteProvenance, WriteTmp, RenameRun, RecordTypeOK, RunDirectory
      <4>2. CASE HashAfter(p) \/ Die(p)
        BY <3>2, <4>2 DEF HashAfter, Die
      <4>3. CASE RefuseLate(p)
        BY <4>3 DEF RefuseLate, NoOut
      <4> QED
        BY <1>14, <4>1, <4>2, <4>3
    <3>4. step'[q] = step[q] /\ seen'[q] = seen[q] /\ asked'[q] = asked[q]
      BY <1>0, <1>14, <2>2
      DEF CopyEntry, HashAfter, Meet, WriteProvenance, WriteTmp, RenameRun, RefuseLate, Die,
          Go, Leave, RecordTypeOK
    <3> QED
      BY <1>6, <2>2, <3>1, <3>3, <3>4
  <2> QED
    BY <2>1, <2>2
<1>15. CASE ScoreReads \/ ScoreJudges \/ UNCHANGED recordingVars
  <2>1. UNCHANGED <<source, step, asked, seen, before, out, edits, drifted>>
    BY <1>15 DEF ScoreReads, ScoreJudges, recordingVars
  <2> QED
    BY <1>0, <2>1 DEF Hashing, CopyKnows, Shows, AtWork, Described, NotBegun, Owner
<1> QED
  BY <1>1, <1>2, <1>3, <1>4, <1>5, <1>14, <1>15 DEF RecordNext

\* What is said of the run directory and the verdict on it.
LEMMA RecordDirectoryStep ==
  ASSUME RecordingInv, [RecordNext]_recordingVars, RecordTypeOK',
         \A p \in Recorder : Local(p)'
  PROVE  RecordedIsReal' /\ RefusalIsClean' /\ VerdictIsSupported' /\ Directory'
<1> USE RecordingAssumption
<1>0. /\ RecordTypeOK /\ Directory /\ RecordedIsReal /\ VerdictIsSupported
      /\ \A p \in Recorder : Local(p)
  BY DEF RecordingInv, RecordingIsSound
<1>1. RefusalIsClean'
  BY DEF RefusalIsClean, Local, Owner, Owning
<1>2. CASE Edit
  <2>1. UNCHANGED <<step, asked, seen, before, out, score>>
    BY <1>2 DEF Edit
  <2>2. (\E j \in 1..Size : edits[j] > 1) => (\E j \in 1..Size : edits'[j] > 1)
    <3>1. PICK i \in 1..Size : edits' = [edits EXCEPT ![i] = @ + 1]
      BY <1>2 DEF Edit
    <3>2. \A j \in 1..Size : edits'[j] \in {edits[j], edits[j] + 1} /\ edits[j] \in Nat
      BY <1>0, <3>1 DEF RecordTypeOK
    <3> QED
      BY <3>2
  <2>3. drifted' => drifted \/ Copying
    BY <1>2, Zenon DEF Edit
  <2>4. RecordedIsReal'
    BY <1>0, <2>1, <2>2, <2>3 DEF RecordedIsReal, Copying
  <2> QED
    BY <1>0, <1>1, <2>1, <2>4 DEF VerdictIsSupported, Directory
<1>3. ASSUME NEW p \in Recorder, Check(p) \/ HashBefore(p) \/ RefuseEarly(p)
      PROVE  RecordedIsReal' /\ VerdictIsSupported' /\ Directory'
  <2>1. /\ UNCHANGED <<source, out, score, edits, drifted>> /\ step[p] # "recorded"
        /\ \A q \in Recorder : q # p => step'[q] = step[q]
    BY <1>0, <1>3 DEF Check, HashBefore, RefuseEarly, Go, Leave, RecordTypeOK
  <2> QED
    BY <1>0, <2>1 DEF RecordedIsReal, VerdictIsSupported, Directory, RecordTypeOK, RunDirectory
<1>4. ASSUME NEW p \in Recorder, MakeOut(p)
      PROVE  RecordedIsReal' /\ VerdictIsSupported' /\ Directory'
  <2>1. /\ out = NoOut /\ out'.run = Nil /\ out'.owner = p /\ score' = score
    BY <1>4 DEF MakeOut, NoOut
  <2>2. score \notin {"read", "PASS", "FAIL"}
    BY <1>0, <2>1 DEF VerdictIsSupported, Directory, NoOut
  <2> QED
    BY <2>1, <2>2 DEF RecordedIsReal, VerdictIsSupported, Directory, Nil
<1>5. ASSUME NEW p \in Recorder,
             \/ CopyEntry(p) \/ HashAfter(p) \/ WriteProvenance(p) \/ WriteTmp(p)
             \/ RefuseLate(p) \/ Die(p)
      PROVE  RecordedIsReal' /\ VerdictIsSupported' /\ Directory'
  <2>1. out.run = Nil /\ out.owner = p /\ score' = score
    BY <1>0, <1>5
    DEF CopyEntry, HashAfter, WriteProvenance, Compared, WriteTmp, RefuseLate, Die, Go, Local,
        AtWork, Owner, Owning
  <2>2. score \notin {"read", "PASS", "FAIL"}
    BY <1>0, <2>1 DEF VerdictIsSupported, Directory
  <2>3. out'.run = Nil /\ (out'.owner = p \/ out' = NoOut)
    BY <1>0, <1>5, <2>1
    DEF CopyEntry, HashAfter, WriteProvenance, WriteTmp, RefuseLate, Die, NoOut, RecordTypeOK,
        RunDirectory
  <2> QED
    BY <2>1, <2>2, <2>3 DEF RecordedIsReal, VerdictIsSupported, Directory, Nil
<1>6. ASSUME NEW p \in Recorder, RenameRun(p)
      PROVE  RecordedIsReal' /\ VerdictIsSupported' /\ Directory'
  <2>1. /\ step[p] = "written" /\ step'[p] = "recorded" /\ out.owner = p /\ out.run = Nil
        /\ out.tmp = asked[p] /\ UNCHANGED <<source, score, edits, drifted>>
    BY <1>0, <1>6 DEF RenameRun, Leave, Local, Owner, Owning, Described, AtWork, RecordTypeOK
  <2>2. /\ out'.run = asked[p] /\ out'.owner = p /\ out'.tree = out.tree
        /\ out'.provenance = out.provenance
    BY <1>0, <1>6, <2>1 DEF RenameRun, RecordTypeOK, RunDirectory
  <2>3. score \notin {"read", "PASS", "FAIL"}
    BY <1>0, <2>1 DEF VerdictIsSupported, Directory
  <2>4. RecordedIsReal'
    BY <1>0, <2>1, <2>2 DEF RecordedIsReal, Local, Described
  <2> QED
    BY <2>1, <2>2, <2>3, <2>4 DEF VerdictIsSupported, Directory, Nil
<1>7. CASE ScoreReads
  <2>1. UNCHANGED <<source, step, out, edits, drifted>> /\ (score' = "read" => out.run # Nil)
        /\ score' \in {"read", "UNAVAILABLE"}
    BY <1>7 DEF ScoreReads
  <2> QED
    BY <1>0, <1>1, <2>1 DEF RecordedIsReal, VerdictIsSupported, Directory
<1>8. CASE ScoreJudges
  <2>1. UNCHANGED <<source, step, out, edits, drifted>> /\ score = "read"
        /\ score' \in {"PASS", "FAIL", "UNAVAILABLE"}
        /\ (score' = "PASS" => out.tree = Substrate)
    BY <1>8 DEF ScoreJudges
  <2> QED
    BY <1>0, <1>1, <2>1 DEF RecordedIsReal, VerdictIsSupported, Directory
<1>9. CASE UNCHANGED recordingVars
  BY <1>0, <1>1, <1>9 DEF RecordedIsReal, VerdictIsSupported, Directory, recordingVars
<1> QED
  BY <1>1, <1>2, <1>3, <1>4, <1>5, <1>6, <1>7, <1>8, <1>9 DEF RecordNext

\* However many recorders are given one directory, whatever edits the tree
\* meanwhile and wherever a recorder is killed: what can be scored is a tree
\* that was there, a refusal leaves nothing and takes nothing away, and a
\* verdict is about a finished recording (runOutcomeRecord, runOutcome).
THEOREM RecordedTreesAreReal == RecordSpec => []RecordingIsSound
<1>1. RecordingInv /\ [RecordNext]_recordingVars => RecordingInv'
  BY RecordTypeStep, RecordLocalStep, RecordDirectoryStep DEF RecordingInv, RecordingIsSound
<1>2. RecordingInv => RecordingIsSound
  BY DEF RecordingInv
<1> QED
  BY RecordInitInv, <1>1, <1>2, PTL DEF RecordSpec

-----------------------------------------------------------------------------
(* The rules document.                                                     *)
\* The first of a set of positions, or the least of a set of sizes.
LEMMA FirstIn ==
  ASSUME NEW S \in SUBSET Nat, S # {}
  PROVE  first(S) \in S /\ first(S) \in Nat /\ \A j \in S : first(S) <= j
<1>1. \E i \in S : \A j \in S : i <= j
  BY LeastNatural
<1> QED BY <1>1 DEF first

\* A document is told from what is not one by its first field.
LEMMA DocumentIs ==
  /\ \A d \in Documents : d.is = "document" /\ d # NoDocument
  /\ \A d : validate(d) => d.is = "document"
  /\ ~validate(NoDocument) /\ NoDocument \notin Documents /\ NoDocument.is # "document"
  /\ Emptied \notin Documents /\ Garbled \notin Documents
  /\ Emptied.is # "document" /\ Garbled.is # "document"
  /\ Emptied # NoDocument /\ Garbled # NoDocument /\ Emptied # Garbled
<1>1. \A d \in Documents : d.is = "document"
  BY DEF Documents
<1>2. NoDocument.is = "none" /\ Emptied.is = "empty" /\ Garbled.is = "garbled"
  BY DEF NoDocument, Emptied, Garbled
<1>3. \A d : validate(d) => d.is = "document"
  BY DEF validate
<1>4. "none" # "document" /\ "empty" # "document" /\ "garbled" # "document"
      /\ "none" # "empty" /\ "none" # "garbled" /\ "empty" # "garbled"
  OBVIOUS
<1> QED BY <1>1, <1>2, <1>3, <1>4, Zenon

\* The rows of a document, and the positions of those that match.
LEMMA RowsAre ==
  ASSUME NEW d \in Documents
  PROVE  /\ d.rows \in Seq(Rows) /\ DOMAIN d.rows \subseteq Nat
         /\ \A i \in DOMAIN d.rows : d.rows[i] \in Rows
<1>1. d.rows \in Seq(Rows)
  BY DEF Documents
<1> QED BY <1>1

LEMMA RowIs ==
  ASSUME NEW r \in Rows
  PROVE  /\ r.prefix \in Int /\ r.price \in Int /\ r.read \in Int /\ r.priced \in BOOLEAN
         /\ r.from \in Int /\ r.until \in Int /\ r.claim \in Claims \cup {NoClaim}
         /\ r.match \in Match \cup {"blank"}
  BY DEF Rows

LEMMA TableIs ==
  ASSUME NEW b \in Release
  PROVE  /\ ModelTable[b] \in Seq(Rows) /\ ModelTable[b] # <<>>
         /\ DOMAIN ModelTable[b] \subseteq Nat
         /\ \A i \in DOMAIN ModelTable[b] :
               ModelTable[b][i] \in Rows /\ compiled(ModelTable[b][i])
<1>1. ModelTable[b] \in Seq(Rows)
  BY RulesAssumption
<1> QED BY <1>1, RulesAssumption

LEMMA MatchingIs ==
  ASSUME NEW rows \in Seq(Rows), NEW id, Matching(rows, id) # {}
  PROVE  /\ first(Matching(rows, id)) \in Matching(rows, id)
         /\ first(Matching(rows, id)) \in DOMAIN rows
         /\ rows[first(Matching(rows, id))] \in Rows
<1>1. Matching(rows, id) \in SUBSET Nat /\ Matching(rows, id) \subseteq DOMAIN rows
  BY DEF Matching
<1>2. first(Matching(rows, id)) \in Matching(rows, id)
  BY <1>1, FirstIn
<1> QED BY <1>1, <1>2

-----------------------------------------------------------------------------
(* Prices.                                                                 *)
\* Two documents with the same terms: what the digest covers of them.
SameTerms(d, e) ==
    /\ d.discount = e.discount /\ DOMAIN d.rows = DOMAIN e.rows
    /\ \A i \in DOMAIN d.rows :
          /\ d.rows[i].match = e.rows[i].match /\ d.rows[i].prefix = e.rows[i].prefix
          /\ d.rows[i].price = e.rows[i].price /\ d.rows[i].read = e.rows[i].read
          /\ d.rows[i].priced = e.rows[i].priced
          /\ d.rows[i].from = e.rows[i].from /\ d.rows[i].until = e.rows[i].until

LEMMA SameFiguresOf ==
  ASSUME NEW b \in Release, NEW c \in Release, ModelTable[b] = ModelTable[c],
         NEW d \in Documents, NEW e \in Documents, SameTerms(d, e), NEW id \in Name, NEW t \in Nat
  PROVE  Figures(b, d, id, t) = Figures(c, e, id, t)
<1>1. Matching(d.rows, id) = Matching(e.rows, id)
  BY DEF Matching, SameTerms
<1>2. InForce(d, id, t) = InForce(e, id, t)
  <2>1. \A i \in Matching(d.rows, id) : windowContains(d.rows[i], t) <=> windowContains(e.rows[i], t)
    BY DEF Matching, SameTerms, windowContains, window
  <2> QED BY <1>1, <2>1 DEF InForce
<1>3. Promotions(d, id, t) = Promotions(e, id, t)
  <2>1. \A i \in InForce(d, id, t) : dated(d.rows[i]) <=> dated(e.rows[i])
    BY DEF InForce, Matching, SameTerms, dated
  <2> QED BY <1>2, <2>1 DEF Promotions
<1>4. \A i \in DOMAIN d.rows : applyDiscount(d, d.rows[i]) = applyDiscount(e, e.rows[i])
  BY DEF applyDiscount, SameTerms
<1>5. lookup(b, id) = lookup(c, id)
  BY DEF lookup
<1>6. d # NoDocument /\ e # NoDocument
  BY DocumentIs
<1>7. HasActiveRow(d, id) <=> HasActiveRow(e, id)
  BY <1>1, <1>6 DEF HasActiveRow
<1>8. ASSUME Matching(d.rows, id) # {}
      PROVE  /\ first(Matching(d.rows, id)) \in DOMAIN d.rows
             /\ activeRow(d, id).prefix = activeRow(e, id).prefix
             /\ activeRow(d, id).read = activeRow(e, id).read
             /\ applyDiscount(d, activeRow(d, id)) = applyDiscount(e, activeRow(e, id))
  <2>1. first(Matching(d.rows, id)) \in DOMAIN d.rows
    BY <1>8, RowsAre, MatchingIs
  <2> QED BY <1>1, <1>4, <2>1 DEF activeRow, SameTerms
<1>9. PriceFor(b, d, id) = PriceFor(c, e, id)
  BY <1>5, <1>7, <1>8 DEF PriceFor, HasActiveRow
<1>10. PriceAt(d, id, t) = PriceAt(e, id, t)
  <2>1. Promotions(d, id, t) \subseteq InForce(d, id, t) /\ InForce(d, id, t) \subseteq DOMAIN d.rows
    BY DEF Promotions, InForce, Matching
  <2>2. Promotions(d, id, t) # {} => first(Promotions(d, id, t)) \in DOMAIN d.rows
    <3>1. Promotions(d, id, t) \in SUBSET Nat
      BY <2>1, RowsAre
    <3> QED BY <2>1, <3>1, FirstIn
  <2>3. InForce(d, id, t) # {} => first(InForce(d, id, t)) \in DOMAIN d.rows
    <3>1. InForce(d, id, t) \in SUBSET Nat
      BY <2>1, RowsAre
    <3> QED BY <2>1, <3>1, FirstIn
  <2> QED BY <1>2, <1>3, <1>4, <2>2, <2>3 DEF PriceAt
<1>11. PriceForAt(b, d, id, t) = PriceForAt(c, e, id, t)
  BY <1>5, <1>6, <1>9, <1>10 DEF PriceForAt
<1>12. MinCacheablePrefix(b, d, id) = MinCacheablePrefix(c, e, id)
  BY <1>5, <1>7, <1>8 DEF MinCacheablePrefix, HasActiveRow
<1>13. ReadMultiplierFor(b, d, id) = ReadMultiplierFor(c, e, id)
  BY <1>5, <1>7, <1>8 DEF ReadMultiplierFor, HasActiveRow
<1>14. unpriceable(d, id) = unpriceable(e, id)
  BY <1>7 DEF unpriceable
<1> QED BY <1>11, <1>12, <1>13, <1>14 DEF Figures

\* Equal digests are of equal terms.
LEMMA DigestCovers ==
  ASSUME NEW b \in Release, NEW c \in Release,
         NEW d \in Documents \cup {NoDocument}, NEW e \in Documents \cup {NoDocument},
         PricingDigest(b, d) = PricingDigest(c, e), NEW id \in Name, NEW t \in Nat
  PROVE  Figures(b, d, id, t) = Figures(c, e, id, t)
<1>1. ModelTable[b] = ModelTable[c] /\ writeOverride(d) = writeOverride(e)
  BY DEF PricingDigest
<1>2. CASE d = NoDocument /\ e = NoDocument
  <2>1. lookup(b, id) = lookup(c, id)
    BY <1>1 DEF lookup
  <2>2. ~HasActiveRow(d, id) /\ ~HasActiveRow(e, id)
    BY <1>2 DEF HasActiveRow
  <2>3. PriceFor(b, d, id) = PriceFor(c, e, id)
    BY <2>1, <2>2 DEF PriceFor
  <2> QED BY <1>2, <2>1, <2>2, <2>3 DEF Figures, PriceForAt, MinCacheablePrefix, ReadMultiplierFor, unpriceable
<1>3. ASSUME NEW x \in Documents PROVE writeOverride(x) # writeOverride(NoDocument)
  <2>1. x # NoDocument
    BY DocumentIs
  <2>2. Len(writeOverride(x)) = 3
    BY <2>1 DEF writeOverride
  <2>3. Len(writeOverride(NoDocument)) = 1
    BY DEF writeOverride
  <2> QED BY <2>2, <2>3
<1>4. CASE d \in Documents /\ e \in Documents
  <2>1. d # NoDocument /\ e # NoDocument
    BY <1>4, DocumentIs
  <2>2. /\ d.discount = e.discount
        /\ [i \in DOMAIN d.rows |-> writeRow(d.rows[i])] = [i \in DOMAIN e.rows |-> writeRow(e.rows[i])]
    BY <1>1, <2>1 DEF writeOverride
  <2>3. DOMAIN d.rows = DOMAIN e.rows
    BY <2>2
  <2>4. \A i \in DOMAIN d.rows : writeRow(d.rows[i]) = writeRow(e.rows[i])
    <3> SUFFICES ASSUME NEW i \in DOMAIN d.rows PROVE writeRow(d.rows[i]) = writeRow(e.rows[i])
      OBVIOUS
    <3>1. [j \in DOMAIN d.rows |-> writeRow(d.rows[j])][i] = writeRow(d.rows[i])
      OBVIOUS
    <3>2. [j \in DOMAIN e.rows |-> writeRow(e.rows[j])][i] = writeRow(e.rows[i])
      BY <2>3
    <3> QED BY <2>2, <3>1, <3>2
  <2>5. \A r \in Rows : LET w == writeRow(r) IN
            /\ w.match = r.match /\ w.prefix = r.prefix /\ w.price = r.price /\ w.read = r.read
            /\ w.priced = r.priced /\ w.from = r.from /\ w.until = r.until
    BY DEF writeRow, Rows
  <2>6. \A i \in DOMAIN d.rows : d.rows[i] \in Rows /\ e.rows[i] \in Rows
    BY <1>4, <2>3, RowsAre
  <2>7. SameTerms(d, e)
    <3> SUFFICES ASSUME NEW i \in DOMAIN d.rows
                 PROVE  /\ d.rows[i].match = e.rows[i].match /\ d.rows[i].prefix = e.rows[i].prefix
                        /\ d.rows[i].price = e.rows[i].price /\ d.rows[i].read = e.rows[i].read
                        /\ d.rows[i].priced = e.rows[i].priced
                        /\ d.rows[i].from = e.rows[i].from /\ d.rows[i].until = e.rows[i].until
      BY <2>2, <2>3 DEF SameTerms
    <3> QED BY <2>4, <2>5, <2>6
  <2> QED BY <1>1, <1>4, <2>7, SameFiguresOf
<1> QED BY <1>1, <1>2, <1>3, <1>4

\* A promotion in force is found wherever it stands, because no other of the same
\* match is in force with it; and only rows in force are quoted.
LEMMA TimeIsKept ==
  ASSUME NEW b \in Release, NEW d \in Documents, validate(d), NEW id \in Name,
         NEW t \in Nat, t # 0
  PROVE  LET quote == PriceForAt(b, d, id, t)
             of(i) == applyDiscount(d, d.rows[i])
         IN  /\ \A i \in Promotions(d, id, t) :
                   /\ d.rows[i].priced
                   /\ \A j \in Promotions(d, id, t) : d.rows[j].match = d.rows[i].match
                   => quote = of(i)
             /\ quote = ListPrice(lookup(b, id)) \/ \E i \in InForce(d, id, t) : quote = of(i)
<1> DEFINE quote == PriceForAt(b, d, id, t)
           of(i) == applyDiscount(d, d.rows[i])
           P == Promotions(d, id, t)
           F == InForce(d, id, t)
<1>1. P \subseteq F /\ F \subseteq DOMAIN d.rows /\ DOMAIN d.rows \subseteq Nat
  BY RowsAre DEF Promotions, InForce, Matching
<1>2. d # NoDocument
  BY DocumentIs
<1>3. P # {} => first(P) \in P
  BY <1>1, FirstIn
<1>4. F # {} => first(F) \in F
  BY <1>1, FirstIn
<1>5. PriceAt(d, id, t) = IF P # {} THEN of(first(P)) ELSE IF F # {} THEN of(first(F)) ELSE NoPrice
  BY DEF PriceAt
<1>6. quote = IF PriceAt(d, id, t).priced THEN PriceAt(d, id, t) ELSE ListPrice(lookup(b, id))
  BY <1>2 DEF PriceForAt
<1>7. ~NoPrice.priced
  BY DEF NoPrice, Quoted
<1>8. quote = ListPrice(lookup(b, id)) \/ \E i \in F : quote = of(i)
  <2> HIDE DEF P, F, quote, of
  <2> QED BY <1>1, <1>3, <1>4, <1>5, <1>6, <1>7
<1>9. ASSUME NEW i \in P, d.rows[i].priced, \A j \in P : d.rows[j].match = d.rows[i].match
      PROVE  quote = of(i)
  <2>1. ASSUME NEW j \in P, NEW k \in P, j < k PROVE FALSE
    <3>1. /\ j \in DOMAIN d.rows /\ k \in DOMAIN d.rows /\ dated(d.rows[j]) /\ dated(d.rows[k])
          /\ windowContains(d.rows[j], t) /\ windowContains(d.rows[k], t)
      BY <1>1 DEF Promotions, InForce
    <3>2. d.rows[j].match = d.rows[k].match
      BY <1>9
    <3>3. ~windowsOverlap(d.rows[j], d.rows[k])
      BY <2>1, <3>1, <3>2 DEF validate
    <3>4. d.rows[j] \in Rows /\ d.rows[k] \in Rows
      BY <3>1, RowsAre
    <3> QED BY <3>1, <3>3, <3>4, RowIs DEF windowsOverlap, windowContains, window
  <2>2. first(P) = i
    <3>1. first(P) \in P /\ first(P) \in Nat /\ i \in Nat
      BY <1>1, <1>3
    <3> QED BY <2>1, <3>1
  <2>3. of(i).priced = d.rows[i].priced
    BY DEF applyDiscount, Quoted
  <2> HIDE DEF P, F, quote, of
  <2> QED BY <1>5, <1>6, <1>9, <2>2, <2>3
<1> QED BY <1>8, <1>9

\* A document with the rows of a table: what --export and --measure write.
OfTable(d) ==
    /\ d.table \in Release /\ d.discount = 0
    /\ DOMAIN d.rows = DOMAIN ModelTable[d.table]
    /\ \A i \in DOMAIN d.rows :
          LET r == d.rows[i]
              m == ModelTable[d.table][i]
          IN  /\ r.match = m.match /\ r.prefix = m.prefix /\ r.price = m.price
              /\ r.priced = m.priced /\ r.from = Unset /\ r.until = Unset
              /\ r.read = IF m.read = 0 THEN Standard ELSE m.read

LEMMA ExportPrices ==
  ASSUME NEW d \in Documents, OfTable(d), NEW id \in Name, NEW t \in Nat
  PROVE  Figures(d.table, d, id, t) = Figures(d.table, NoDocument, id, t)
<1> DEFINE b == d.table
           T == ModelTable[b]
           M == Matching(T, id)
<1>1. b \in Release /\ T \in Seq(Rows) /\ DOMAIN d.rows = DOMAIN T /\ d.discount = 0
  BY TableIs DEF OfTable
<1>2. Matching(d.rows, id) = M
  BY DEF Matching, OfTable
<1>3. d # NoDocument /\ ~HasActiveRow(NoDocument, id)
  BY DocumentIs DEF HasActiveRow
<1>4. HasActiveRow(d, id) <=> M # {}
  BY <1>2, <1>3 DEF HasActiveRow
<1>5. PriceForAt(b, NoDocument, id, t) = ListPrice(lookup(b, id))
  BY <1>3 DEF PriceForAt, PriceFor
<1>6. \A i \in DOMAIN d.rows : windowContains(d.rows[i], t) /\ ~dated(d.rows[i])
  BY DEF OfTable, windowContains, window, dated, Unset, Unreadable
<1>7. InForce(d, id, t) = M /\ Promotions(d, id, t) = {}
  <2>1. M \subseteq DOMAIN d.rows
    BY <1>1 DEF Matching
  <2> QED BY <1>2, <1>6, <2>1 DEF InForce, Promotions
<1> HIDE DEF T, M
<1>8. CASE M = {}
  <2>1. PriceFor(b, d, id) = ListPrice(lookup(b, id))
    BY <1>4, <1>8 DEF PriceFor
  <2>2. ~PriceAt(d, id, t).priced
    BY <1>7, <1>8 DEF PriceAt, NoPrice, Quoted
  <2>3. PriceForAt(b, d, id, t) = ListPrice(lookup(b, id))
    BY <2>1, <2>2 DEF PriceForAt
  <2> QED BY <1>3, <1>4, <1>5, <1>8, <2>3 DEF Figures, MinCacheablePrefix, ReadMultiplierFor, unpriceable
<1>9. CASE M # {}
  <2> DEFINE i == first(M)
             r == d.rows[i]
  <2>1. i \in M /\ i \in DOMAIN T /\ T[i] \in Rows /\ compiled(T[i])
    <3>1. i \in M /\ i \in DOMAIN T /\ T[i] \in Rows
      BY <1>1, <1>9, MatchingIs DEF M
    <3> QED BY <1>1, <3>1, TableIs DEF T
  <2>2. /\ r.prefix = T[i].prefix /\ r.price = T[i].price /\ r.priced = T[i].priced
        /\ r.read = IF T[i].read = 0 THEN Standard ELSE T[i].read
    BY <1>1, <2>1 DEF OfTable, T
  <2>3. lookup(b, id) = [T[i] EXCEPT !.read = IF @ = 0 THEN Standard ELSE @]
    BY <1>9 DEF lookup, T, M
  <2>4. /\ lookup(b, id).prefix = r.prefix /\ lookup(b, id).price = r.price
        /\ lookup(b, id).priced = r.priced /\ lookup(b, id).read = r.read
    BY <2>1, <2>2, <2>3 DEF Rows
  <2>5. activeRow(d, id) = r
    BY <1>2 DEF activeRow
  <2> HIDE DEF i, r
  <2>6. r.price \in Int /\ r.read \in Int /\ r.read > 0 /\ r.priced \in BOOLEAN
    <3>1. T[i].read \in 0..100 /\ T[i].price \in Int /\ T[i].priced \in BOOLEAN
      BY <2>1, RowIs DEF compiled
    <3>2. Standard \in 1..100
      BY RulesAssumption
    <3> QED BY <2>2, <3>1, <3>2
  <2>7. ListPrice(lookup(b, id)) = applyDiscount(d, r)
    BY <1>1, <2>4, <2>6 DEF ListPrice, applyDiscount, Quoted
  <2>8. PriceFor(b, d, id) = applyDiscount(d, r)
    BY <1>4, <1>9, <2>5 DEF PriceFor
  <2>9. PriceAt(d, id, t) = applyDiscount(d, r)
    BY <1>7, <1>9 DEF PriceAt, r, i
  <2>10. PriceForAt(b, d, id, t) = ListPrice(lookup(b, id))
    BY <1>3, <2>7, <2>8, <2>9 DEF PriceForAt
  <2>11. MinCacheablePrefix(b, d, id) = MinCacheablePrefix(b, NoDocument, id)
    BY <1>3, <1>4, <1>9, <2>4, <2>5 DEF MinCacheablePrefix
  <2>12. ReadMultiplierFor(b, d, id) = ReadMultiplierFor(b, NoDocument, id)
    BY <1>3, <1>4, <1>9, <2>4, <2>5, <2>6 DEF ReadMultiplierFor
  <2>13. ~unpriceable(d, id)
    BY <1>4, <1>9 DEF unpriceable
  <2>14. id \notin Foreign
    <3>1. matchesModel(id, T[i].match)
      BY <2>1 DEF M, Matching
    <3> QED BY <2>1, <3>1 DEF matchesModel, compiled
  <2>15. ~unpriceable(NoDocument, id)
    BY <2>14 DEF unpriceable
  <2>16. unpriceable(d, id) = unpriceable(NoDocument, id)
    BY <2>13, <2>15 DEF unpriceable
  <2> QED BY <1>5, <2>10, <2>11, <2>12, <2>16 DEF Figures
<1> QED BY <1>8, <1>9

\* The comparison with another database.
LEMMA PricesAreCompared ==
  ASSUME NEW b, NEW db, NEW i \in DOMAIN ModelTable[b], NEW f \in Fields, ModelTable[b][i].priced
  PROVE  LET own == {e \in db : /\ e.whole /\ e.own /\ e.bare
                                /\ e.model = ModelTable[b][i].match}
         IN  /\ i \in CheckPrices(b, db).unmatched <=> own = {}
             /\ <<i, f>> \in CheckPrices(b, db).disagreements
                <=> \E e \in own : Theirs(e, f) \notin {Unset, Ours(ModelTable[b][i], f)}
<1> DEFINE T == ModelTable[b]
           own == {e \in db : e.whole /\ e.own /\ e.bare /\ e.model = T[i].match}
           obs == ParseLiteLLMPrices(db)
           named == {j \in {k \in DOMAIN T : T[k].priced} : \E e \in obs : e.model = T[j].match}
<1>1. \A e : e \in own <=> e \in obs /\ e.model = T[i].match
  BY DEF ParseLiteLLMPrices
<1>2. i \in named <=> own # {}
  BY <1>1
<1>3. CheckPrices(b, db).unmatched = {k \in DOMAIN T : T[k].priced} \ named
  BY DEF CheckPrices
<1>4. CheckPrices(b, db).disagreements =
        {q \in named \X Fields :
            \E e \in obs : /\ e.model = T[q[1]].match /\ Theirs(e, q[2]) # Unset
                           /\ Ours(T[q[1]], q[2]) # Theirs(e, q[2])}
  BY DEF CheckPrices
<1> HIDE DEF named, obs
<1>5. <<i, f>> \in CheckPrices(b, db).disagreements
        <=> /\ i \in named
            /\ \E e \in obs : /\ e.model = T[i].match /\ Theirs(e, f) # Unset
                              /\ Ours(T[i], f) # Theirs(e, f)
  BY <1>4
<1>6. (\E e \in obs : /\ e.model = T[i].match /\ Theirs(e, f) # Unset /\ Ours(T[i], f) # Theirs(e, f))
        <=> \E e \in own : Theirs(e, f) \notin {Unset, Ours(T[i], f)}
  BY <1>1
<1>7. i \in CheckPrices(b, db).unmatched <=> own = {}
  BY <1>2, <1>3
<1>8. <<i, f>> \in CheckPrices(b, db).disagreements
        <=> \E e \in own : Theirs(e, f) \notin {Unset, Ours(T[i], f)}
  BY <1>2, <1>5, <1>6
<1> QED BY <1>7, <1>8

\* What the label names.
LEMMA LabelsAreTrue == LabelNamesRules
<1> SUFFICES ASSUME NEW models \in SUBSET Name, models # {}
             PROVE  RulesLabel(models) = {RulesForModel(id) : id \in models}
  BY DEF LabelNamesRules
<1>1. \A x : x \in RulesLabel(models) <=>
            \/ x = "anthropic" /\ \E id \in models : id \notin Foreign /\ id \notin Astra
            \/ x = "astra" /\ \E id \in models : id \in Astra
            \/ x = "none" /\ \E id \in models : id \in Foreign /\ id \notin Astra
  BY DEF RulesLabel
<1>2. \A x : x \in {RulesForModel(id) : id \in models} <=>
            \/ x = "anthropic" /\ \E id \in models : id \notin Foreign /\ id \notin Astra
            \/ x = "astra" /\ \E id \in models : id \in Astra
            \/ x = "none" /\ \E id \in models : id \in Foreign /\ id \notin Astra
  BY DEF RulesForModel
<1> QED BY <1>1, <1>2

\* What a break is laid to.
LEMMA BreaksAreTrue == BreaksAreJudged
<1> SUFFICES ASSUME NEW models \in SUBSET Name, NEW from \in models, NEW to \in models,
                    NEW prev \in Usages, NEW cur \in Usages, NEW gap \in Gaps
             PROVE  LET cause == ClassifyBreakForModel(prev, cur, from, to, gap)
                    IN  /\ cause = "expired" => \E l \in Lifetimes(from, prev) : gap > l
                        /\ cause = "prefix" => \A l \in Lifetimes(from, prev) : gap <= l
                        /\ cause \in {"expired", "prefix"}
                           => RulesForModel(from) \in RulesLabel(models) \ {"none"}
                        /\ cause = "no rules" => "none" \in RulesLabel(models)
  BY DEF BreaksAreJudged
<1> DEFINE cause == ClassifyBreakForModel(prev, cur, from, to, gap)
           rules == RulesForModel(from)
<1>1. rules \in RulesLabel(models)
  BY LabelsAreTrue DEF LabelNamesRules
<1>2. gap \in Nat /\ prev.long \in BOOLEAN /\ prev.short \in BOOLEAN /\ cur.read \in BOOLEAN
  BY DEF Gaps, Usages, TTLShort, TTLAstra, TTLLong
<1>3. rules = "none" => cause \in {"model", "no rules", "history"}
  BY DEF ClassifyBreakForModel
<1>4. rules # "none" =>
        cause = IF gap > ttlFor(rules, prev) THEN "expired" ELSE IF from # to THEN "model"
                ELSE IF ~cur.read THEN "prefix" ELSE "history"
  BY DEF ClassifyBreakForModel, ClassifyBreakWith
<1>5. ASSUME rules # "none"
      PROVE  /\ gap > ttlFor(rules, prev) => \E l \in Lifetimes(from, prev) : gap > l
             /\ ~(gap > ttlFor(rules, prev)) => \A l \in Lifetimes(from, prev) : gap <= l
  <2>1. CASE from \in Astra
    BY <1>2, <2>1 DEF RulesForModel, ttlFor, Lifetimes, TTLAstra
  <2>2. CASE from \notin Astra
    <3>1. ttlFor(rules, prev) = TTLOf(prev)
      BY <2>2 DEF RulesForModel, ttlFor
    <3> QED BY <1>2, <2>2, <3>1 DEF TTLOf, Lifetimes, TTLShort, TTLLong
  <2> QED BY <2>1, <2>2
<1> HIDE DEF cause, rules
<1>6. cause = "expired" \/ cause = "prefix" => rules # "none"
  BY <1>3
<1>7. cause = "no rules" => rules = "none"
  BY <1>4
<1>8. cause = "expired" => \E l \in Lifetimes(from, prev) : gap > l
  BY <1>4, <1>5, <1>6
<1>9. cause = "prefix" => \A l \in Lifetimes(from, prev) : gap <= l
  BY <1>4, <1>5, <1>6
<1> QED BY <1>1, <1>6, <1>7, <1>8, <1>9 DEF cause, rules

-----------------------------------------------------------------------------
(* The invariant: what was loaded is valid; what was not written by hand   *)
(* came as it says; what was measured bounds the floor; and the rows of an *)
(* export are the table's.                                                 *)
Loadable == {d \in Documents : validate(d)} \cup {NoDocument}
Testimony == [model : Name, prefix : Nat]
Served1 == [model : Name, served : BOOLEAN, created : Nat, read : Nat]
Jobs ==
    [step : {"none", "reports", "ends", "fetched", "writes", "describes", "checks", "measures"},
     build : Release, over : Loadable, got : Loadable, db : Databases \cup {{}},
     unread : SUBSET LedgerSession, evidence : SUBSET Testimony]

RulesType ==
    /\ rulesFile \in Documents \cup {NoDocument, Emptied, Garbled}
    /\ running \in [Invocation -> Jobs]
    /\ shipped \in Release /\ day \in 1..MaxDay
    /\ served \in [LedgerSession -> SUBSET Served1]
    /\ measured \in Documents \cup {NoDocument} /\ said \in Loadable

Came(d) ==
    d.maker # "hand" =>
        /\ d.source = d.hops[Len(d.hops)]
        /\ \A i \in DOMAIN d.hops : d.hops[i].scheme # "http"
        /\ d.fetched \in Nat
Bounds(d) ==
    d.maker = "measure" =>
        \A i \in DOMAIN d.rows : d.rows[i].claim # NoClaim =>
            /\ d.rows[i].claim.upper \in Nat /\ d.rows[i].claim.lower = Unset
            /\ RealFloor[d.rows[i].claim.model] <= d.rows[i].claim.upper
Proper(d) == Came(d) /\ Bounds(d) /\ (d.table # 0 => OfTable(d))

Vouched ==
    /\ rulesFile \in Documents => Proper(rulesFile)
    /\ measured \in Documents => Proper(measured)
    /\ \A p \in Invocation :
          /\ running[p].over \in Documents => Proper(running[p].over)
          /\ running[p].got \in Documents => Proper(running[p].got)
Witnessed ==
    /\ \A s \in LedgerSession : \A r \in served[s] : Testifies(r) => RealFloor[r.model] <= r.created
    /\ \A p \in Invocation : \A e \in running[p].evidence : RealFloor[e.model] <= e.prefix
Kept == said # NoDocument => rulesFile = said

RulesInv == RulesType /\ Vouched /\ Witnessed /\ Kept

LEMMA LoadIs ==
  ASSUME RulesType
  PROVE  LoadRules(rulesFile) \in Loadable
         /\ (LoadRules(rulesFile) = NoDocument \/ LoadRules(rulesFile) = rulesFile)
<1>1. validate(rulesFile) => rulesFile \in Documents
  BY DocumentIs DEF RulesType
<1> QED BY <1>1 DEF LoadRules, Loadable

\* A command that has just started.
LEMMA StartedIs ==
  ASSUME RulesType, Vouched, NEW at \in {"reports", "ends", "fetched", "describes", "checks", "measures"}
  PROVE  /\ Started(at) \in Jobs /\ Started(at).evidence = {} /\ Started(at).got = NoDocument
         /\ Started(at).over \in Documents => Proper(Started(at).over)
<1>1. LoadRules(rulesFile) \in Loadable /\ (LoadRules(rulesFile) = NoDocument \/ LoadRules(rulesFile) = rulesFile)
  BY LoadIs
<1>2. NoDocument \in Loadable /\ NoDocument \notin Documents
  BY DocumentIs DEF Loadable
<1>3. Started(at) = [step |-> at, build |-> shipped, over |-> LoadRules(rulesFile),
                       got |-> NoDocument, db |-> {}, unread |-> {}, evidence |-> {}]
  BY DEF Started, task
<1>4. shipped \in Release
  BY DEF RulesType
<1>5. Started(at) \in Jobs
  BY <1>1, <1>2, <1>3, <1>4 DEF Jobs
<1> QED BY <1>1, <1>2, <1>3, <1>5 DEF Vouched

LEMMA NoneIs == None \in Jobs /\ None.evidence = {} /\ None.got = NoDocument /\ None.over = NoDocument
<1>1. NoDocument \in Loadable
  BY DEF Loadable
<1> QED BY <1>1, RulesAssumption DEF None, task, Jobs

\* A step of one command that touches neither the file nor the ledger.
LEMMA CommandStep ==
  ASSUME RulesInv, NEW p \in Invocation, NEW j \in Jobs, Goes(p, j),
         j.over \in Documents => Proper(j.over), j.got \in Documents => Proper(j.got),
         \A e \in j.evidence : RealFloor[e.model] <= e.prefix
  PROVE  /\ running' \in [Invocation -> Jobs]
         /\ \A q \in Invocation :
               /\ running'[q].over \in Documents => Proper(running'[q].over)
               /\ running'[q].got \in Documents => Proper(running'[q].got)
               /\ \A e \in running'[q].evidence : RealFloor[e.model] <= e.prefix
<1>1. running \in [Invocation -> Jobs]
  BY DEF RulesInv, RulesType
<1>2. running' = [running EXCEPT ![p] = j]
  BY DEF Goes
<1>3. running'[p] = j /\ \A q \in Invocation \ {p} : running'[q] = running[q]
  BY <1>1, <1>2
<1>4. running' \in [Invocation -> Jobs]
  BY <1>1, <1>2
<1> QED BY <1>3, <1>4 DEF RulesInv, Vouched, Witnessed

LEMMA QuietCommand ==
  ASSUME RulesInv, NEW p \in Invocation, NEW j \in Jobs, Goes(p, j),
         j.over \in Documents => Proper(j.over), j.got \in Documents => Proper(j.got),
         \A e \in j.evidence : RealFloor[e.model] <= e.prefix,
         UNCHANGED <<rulesFile, shipped, day, served, measured, said>>
  PROVE  RulesInv'
  BY CommandStep DEF RulesInv, RulesType, Vouched, Witnessed, Kept

\* A document under another hop, date and path is as valid as it was.
LEMMA Stamped ==
  ASSUME NEW d \in Documents, NEW t \in Int, NEW hs \in Seq(Hops), hs # <<>>
  PROVE  LET e == stamped(d, hs, t)
             h == hs[Len(hs)]
         IN  /\ e \in Documents /\ e.rows = d.rows /\ e.maker = d.maker /\ e.table = d.table
             /\ e.discount = d.discount /\ e.source = h /\ e.fetched = t /\ e.hops = hs
             /\ validate(d) => validate(e)
<1> DEFINE h == hs[Len(hs)]
           e == [d EXCEPT !.source = h, !.fetched = t, !.hops = hs]
<1>0. h \in Hops
  OBVIOUS
<1> HIDE DEF h
<1>1. e \in Documents
  BY <1>0 DEF Documents
<1>2. /\ e.rows = d.rows /\ e.maker = d.maker /\ e.table = d.table /\ e.discount = d.discount
      /\ e.source = h /\ e.fetched = t /\ e.hops = hs /\ e.is = d.is /\ e.schema = d.schema
      /\ e.version = d.version /\ e.provider = d.provider
  BY DEF Documents
<1> HIDE DEF e
<1>3. validate(d) => validate(e)
  <2>1. unattributed(e) <=> unattributed(d)
    BY <1>2 DEF unattributed
  <2> QED BY <1>2, <2>1 DEF validate
<1>4. e = stamped(d, hs, t)
  BY DEF e, h, stamped
<1> QED BY <1>1, <1>2, <1>3, <1>4 DEF h

LEMMA ExportIs ==
  ASSUME NEW b \in Release
  PROVE  /\ ExportRules(b) \in Documents /\ OfTable(ExportRules(b))
         /\ ExportRules(b).maker = "feed" /\ ExportRules(b).table = b
         /\ ExportRules(b).rows = [i \in DOMAIN ModelTable[b] |->
                  [ModelTable[b][i] EXCEPT !.read = IF @ = 0 THEN Standard ELSE @]]
<1> DEFINE R == [i \in DOMAIN ModelTable[b] |->
                  [ModelTable[b][i] EXCEPT !.read = IF @ = 0 THEN Standard ELSE @]]
<1>1. /\ ModelTable[b] \in Seq(Rows)
      /\ \A i \in DOMAIN ModelTable[b] : ModelTable[b][i] \in Rows /\ compiled(ModelTable[b][i])
  BY TableIs
<1>2. Standard \in Int
  BY RulesAssumption
<1>3. ASSUME NEW i \in DOMAIN ModelTable[b]
      PROVE  /\ R[i] \in Rows /\ R[i].match = ModelTable[b][i].match
             /\ R[i].prefix = ModelTable[b][i].prefix /\ R[i].price = ModelTable[b][i].price
             /\ R[i].priced = ModelTable[b][i].priced
             /\ R[i].from = ModelTable[b][i].from /\ R[i].until = ModelTable[b][i].until
             /\ R[i].read = IF ModelTable[b][i].read = 0 THEN Standard ELSE ModelTable[b][i].read
             /\ R[i].claim = ModelTable[b][i].claim
  <2>1. ModelTable[b][i] \in Rows
    BY <1>1
  <2> QED BY <1>2, <2>1 DEF Rows
<1>4. R \in Seq(Rows)
  <2>1. DOMAIN ModelTable[b] = 1..Len(ModelTable[b]) /\ Len(ModelTable[b]) \in Nat
    BY <1>1
  <2> HIDE DEF R
  <2>2. R \in [1..Len(ModelTable[b]) -> Rows]
    <3>1. R = [i \in DOMAIN ModelTable[b] |-> R[i]]
      BY DEF R
    <3> QED BY <1>3, <2>1, <3>1
  <2> QED BY <2>1, <2>2
<1>5. DOMAIN R = DOMAIN ModelTable[b]
  OBVIOUS
<1> HIDE DEF R
<1>6. /\ ExportRules(b).rows = R /\ ExportRules(b).discount = 0 /\ ExportRules(b).table = b
      /\ ExportRules(b).maker = "feed"
  BY DEF ExportRules, R
<1>7. ExportRules(b) \in Documents
  <2>1. local \in Hops /\ [scheme |-> "https", host |-> "pricing"] \in Hops
    BY DEF local, Hops
  <2>2. <<local>> \in Seq(Hops)
    BY <2>1
  <2> QED BY <1>4, <2>1, <2>2 DEF ExportRules, Documents, R
<1>8. OfTable(ExportRules(b))
  BY <1>1, <1>3, <1>5, <1>6 DEF OfTable, compiled
<1> QED BY <1>6, <1>7, <1>8 DEF R

\* An export is a file of its own.
LEMMA ExportIsProper ==
  ASSUME NEW b \in Release
  PROVE  Bounds(ExportRules(b)) /\ OfTable(ExportRules(b)) /\ ExportRules(b) \in Documents
  BY ExportIs DEF Bounds

\* What an update has fetched, stamped and found valid.
LEMMA FetchedIs ==
  ASSUME RulesInv, NEW c \in Sources, ~Refused(c), validate(c.answer)
  PROVE  LET d == stamped(c.answer, c.hops, day)
         IN  d \in Documents /\ validate(d) /\ Proper(d)
<1> DEFINE d == stamped(c.answer, c.hops, day)
<1>1. local \in Hops /\ local.scheme = "file" /\ "file" # "http" /\ <<local>> \in Seq(Hops)
      /\ Len(<<local>>) = 1 /\ <<local>> # <<>>
  BY DEF local, Hops
<1>2. CASE c \in Feeds
  <2>1. /\ c.hops \in Seq(Hops) /\ c.hops # <<>> /\ c.answer \in Answers
        /\ c.hops[1].scheme = "file" => Len(c.hops) = 1
        /\ c.answer.is = "document" => c.answer.maker = "feed" /\ c.answer.table = 0
    BY <1>2, RulesAssumption
  <2>2. c.answer.is = "document"
    BY DocumentIs
  <2>3. c.answer \in Documents
    <3>1. Garbled.is # "document" /\ [is |-> "payment"].is # "document"
          /\ [is |-> "status"].is # "document"
      BY DEF Garbled
    <3> QED BY <2>1, <2>2, <3>1 DEF Answers
  <2>4. c.answer.maker = "feed" /\ c.answer.table = 0
    BY <2>1, <2>2
  <2>5. Len(c.hops) \in Nat \ {0} /\ DOMAIN c.hops = 1..Len(c.hops)
    BY <2>1
  <2>6. \A i \in DOMAIN c.hops : c.hops[i] \in Hops
    BY <2>1
  <2>7. c.hops[1] \in Hops /\ c.hops[1].scheme \in {"https", "http", "file"}
    BY <2>5, <2>6 DEF Hops
  <2>8. \A i \in DOMAIN c.hops : c.hops[i].scheme # "http"
    <3>1. CASE c.hops[1].scheme = "file"
      <4>1. Len(c.hops) = 1
        BY <2>1, <3>1
      <4>2. \A i \in DOMAIN c.hops : i = 1
        BY <2>5, <4>1
      <4> QED BY <3>1, <4>2
    <3>2. CASE c.hops[1].scheme = "https"
      BY <3>2 DEF Refused
    <3>3. CASE c.hops[1].scheme = "http"
      BY <3>3 DEF Refused
    <3> QED BY <2>7, <3>1, <3>2, <3>3
  <2>9. day \in Nat /\ c.hops[Len(c.hops)] \in Hops
    BY <2>5, <2>6 DEF RulesInv, RulesType
  <2>10. /\ d \in Documents /\ d.maker = "feed" /\ d.table = 0 /\ d.source = c.hops[Len(c.hops)]
         /\ d.fetched = day /\ d.hops = c.hops /\ validate(d)
    BY <2>1, <2>3, <2>4, <2>9, Stamped
  <2> HIDE DEF d
  <2>11. Proper(d)
    BY <2>8, <2>9, <2>10 DEF Proper, Came, Bounds
  <2> QED BY <2>10, <2>11 DEF d
<1>3. ASSUME NEW x \in Documents, c = fromFile(x), Bounds(x), x.table # 0 => OfTable(x)
      PROVE  d \in Documents /\ validate(d) /\ Proper(d)
  <2>1. c.answer = x /\ c.hops = <<local>>
    BY <1>3 DEF fromFile
  <2>2. day \in Nat /\ c.hops[Len(c.hops)] = local
    BY <1>1, <2>1 DEF RulesInv, RulesType
  <2>3. /\ d \in Documents /\ d.rows = x.rows /\ d.maker = x.maker /\ d.table = x.table
        /\ d.discount = x.discount /\ d.source = local /\ d.fetched = day /\ d.hops = <<local>>
        /\ validate(d)
    <3>1. c.hops \in Seq(Hops) /\ c.hops # <<>> /\ day \in Int /\ validate(x)
      BY <1>1, <2>1, <2>2
    <3>2. d = stamped(x, c.hops, day)
      BY <2>1
    <3> DEFINE hs == c.hops
    <3> HIDE DEF d, hs
    <3>3. /\ d \in Documents /\ d.rows = x.rows /\ d.maker = x.maker /\ d.table = x.table
          /\ d.discount = x.discount /\ d.source = hs[Len(hs)] /\ d.fetched = day /\ d.hops = hs
          /\ validate(x) => validate(d)
      BY <1>3, <3>1, <3>2, Stamped DEF hs
    <3> QED BY <2>1, <2>2, <3>1, <3>3 DEF hs
  <2> HIDE DEF d
  <2>4. Bounds(d)
    BY <1>3, <2>3 DEF Bounds
  <2>5. d.table # 0 => OfTable(d)
    BY <1>3, <2>3 DEF OfTable
  <2>6. Came(d)
    <3>1. \A i \in DOMAIN <<local>> : <<local>>[i] = local
      BY <1>1
    <3>2. <<local>>[Len(<<local>>)] = local
      BY <1>1
    <3> QED BY <1>1, <2>2, <2>3, <3>1, <3>2 DEF Came
  <2> QED BY <2>3, <2>4, <2>5, <2>6 DEF Proper
<1>4. CASE c = fromFile(ExportRules(shipped))
  <2>1. shipped \in Release
    BY DEF RulesInv, RulesType
  <2> QED BY <1>3, <1>4, <2>1, ExportIsProper
<1>5. CASE measured # NoDocument /\ c = fromFile(measured)
  <2>1. measured \in Documents /\ Proper(measured)
    BY <1>5 DEF RulesInv, RulesType, Vouched
  <2> QED BY <1>3, <1>5, <2>1 DEF Proper
<1>6. c \in Feeds \/ c = fromFile(ExportRules(shipped)) \/ (measured # NoDocument /\ c = fromFile(measured))
  BY DEF Sources
<1> QED BY <1>2, <1>4, <1>5, <1>6

\* What a measurement makes of cold writes.
LEMMA ClaimIs ==
  ASSUME NEW b \in Release, NEW d \in Loadable, NEW evidence \in SUBSET Testimony,
         \A e \in evidence : RealFloor[e.model] <= e.prefix, NEW id \in MeasuredModels(evidence)
  PROVE  LET c == MeasureClaims(b, d, evidence, id)
         IN  /\ c \in Claims /\ c.upper \in Nat /\ c.lower = Unset
             /\ RealFloor[c.model] <= c.upper
<1> DEFINE S == {e.prefix : e \in {f \in evidence : f.model = id}}
<1>1. \A e \in evidence : e.model \in Name /\ e.prefix \in Nat
  BY DEF Testimony
<1>2. S \in SUBSET Nat
  BY <1>1
<1>3. S # {} /\ id \in Name
  BY <1>1 DEF MeasuredModels
<1>4. \A n \in S : RealFloor[id] <= n
  OBVIOUS
<1> HIDE DEF S
<1>5. first(S) \in S /\ first(S) \in Nat
  BY <1>2, <1>3, FirstIn
<1>6. DocumentedMinPrefix(b, d, id) \in Int
  <2>1. CASE HasActiveRow(d, id)
    <3>1. d \in Documents /\ Matching(d.rows, id) # {}
      BY <2>1 DEF HasActiveRow, Loadable
    <3>2. activeRow(d, id) \in Rows
      BY <3>1, RowsAre, MatchingIs DEF activeRow
    <3> QED BY <2>1, <3>2, RowIs DEF DocumentedMinPrefix
  <2>2. CASE ~HasActiveRow(d, id)
    <3> DEFINE T == ModelTable[b]
               N == {i \in DOMAIN T : id \in OccursIn[T[i].match]}
    <3>1. N \in SUBSET Nat /\ N \subseteq DOMAIN T
      BY TableIs
    <3>2. N # {} => first(N) \in DOMAIN T
      BY <3>1, FirstIn
    <3>3. N # {} => T[first(N)].prefix \in Int
      BY <3>2, TableIs, RowIs
    <3>4. DocumentedMinPrefix(b, d, id) = IF N = {} THEN 0 ELSE T[first(N)].prefix
      BY <2>2 DEF DocumentedMinPrefix
    <3> HIDE DEF N, T
    <3> QED BY <3>3, <3>4
  <2> QED BY <2>1, <2>2
<1>7. MeasureClaims(b, d, evidence, id) =
        [of |-> "claim", model |-> id, documented |-> DocumentedMinPrefix(b, d, id),
         upper |-> first(S), lower |-> Unset, declared |-> FALSE]
  BY DEF MeasureClaims, S
<1>8. Unset \in Int
  BY DEF Unset
<1> QED BY <1>3, <1>4, <1>5, <1>6, <1>7, <1>8 DEF Claims

LEMMA MeasuredIs ==
  ASSUME NEW b \in Release, NEW d \in Loadable, NEW evidence \in SUBSET Testimony,
         \A e \in evidence : RealFloor[e.model] <= e.prefix, NEW t \in Nat
  PROVE  MeasuredRules(b, d, evidence, t) \in Documents /\ Proper(MeasuredRules(b, d, evidence, t))
<1> DEFINE T == ModelTable[b]
           covered(r) == MeasuredModels(evidence) \cap OccursIn[r.match]
           claimOf(r) == IF covered(r) = {} THEN NoClaim
                         ELSE MeasureClaims(b, d, evidence, CHOOSE id \in covered(r) : TRUE)
           X == ExportRules(b)
           R == [i \in DOMAIN T |-> [X.rows[i] EXCEPT !.claim = claimOf(T[i])]]
           D == MeasuredRules(b, d, evidence, t)
<1>1. ASSUME NEW r
      PROVE  \/ claimOf(r) = NoClaim
             \/ /\ claimOf(r) \in Claims /\ claimOf(r).upper \in Nat /\ claimOf(r).lower = Unset
                /\ RealFloor[claimOf(r).model] <= claimOf(r).upper
  <2>1. CASE covered(r) = {}
    BY <2>1
  <2>2. CASE covered(r) # {}
    <3> DEFINE id == CHOOSE x \in covered(r) : TRUE
    <3>1. id \in MeasuredModels(evidence)
      BY <2>2
    <3>2. claimOf(r) = MeasureClaims(b, d, evidence, id)
      BY <2>2
    <3> HIDE DEF id, claimOf, covered
    <3> QED BY <3>1, <3>2, ClaimIs
  <2> QED BY <2>1, <2>2
<1>2. /\ X \in Documents /\ OfTable(X) /\ X.table = b /\ X.discount = 0
      /\ X.hops = <<local>> /\ DOMAIN X.rows = DOMAIN T
  BY ExportIs DEF ExportRules
<1>3. \A i \in DOMAIN T : X.rows[i] \in Rows
  BY <1>2, RowsAre
<1>4. D = [X EXCEPT !.version = "measured", !.source = local, !.fetched = t,
                    !.maker = "measure", !.rows = R]
  BY DEF MeasuredRules
<1> HIDE DEF X, claimOf, covered
<1>5. ASSUME NEW i \in DOMAIN T
      PROVE  /\ R[i] \in Rows /\ R[i].claim = claimOf(T[i]) /\ R[i].match = X.rows[i].match
             /\ R[i].prefix = X.rows[i].prefix /\ R[i].price = X.rows[i].price
             /\ R[i].priced = X.rows[i].priced /\ R[i].read = X.rows[i].read
             /\ R[i].from = X.rows[i].from /\ R[i].until = X.rows[i].until
  <2>1. X.rows[i] \in Rows /\ claimOf(T[i]) \in Claims \cup {NoClaim}
    BY <1>1, <1>3
  <2>2. R[i] = [X.rows[i] EXCEPT !.claim = claimOf(T[i])]
    OBVIOUS
  <2> HIDE DEF R
  <2> QED BY <2>1, <2>2 DEF Rows
<1>6. R \in Seq(Rows) /\ DOMAIN R = DOMAIN T
  <2>1. DOMAIN T = 1..Len(T) /\ Len(T) \in Nat
    BY TableIs
  <2>2. DOMAIN R = DOMAIN T
    OBVIOUS
  <2>3. R = [i \in DOMAIN T |-> R[i]]
    OBVIOUS
  <2> HIDE DEF R, T
  <2>4. R \in [1..Len(T) -> Rows]
    BY <1>5, <2>1, <2>3
  <2> QED BY <2>1, <2>2, <2>4
<1> HIDE DEF R, T, D
<1>7. local \in Hops /\ local.scheme = "file" /\ "file" # "http"
  BY DEF local, Hops
<1>8. /\ D \in Documents /\ D.rows = R /\ D.maker = "measure" /\ D.table = b /\ D.discount = 0
      /\ D.source = local /\ D.hops = <<local>> /\ D.fetched = t
  <2>1. X.is = "document" /\ X.schema \in BOOLEAN /\ X.provider \in {"none", "named"}
        /\ X.discount \in Int /\ X.hops \in Seq(Hops) /\ X.table \in Release \cup {0}
    BY <1>2 DEF Documents
  <2>2. D = [is |-> X.is, schema |-> X.schema, version |-> "measured", provider |-> X.provider,
             discount |-> X.discount, rows |-> R, source |-> local, fetched |-> t,
             hops |-> X.hops, maker |-> "measure", table |-> X.table]
    BY <1>2, <1>4 DEF Documents
  <2>3. D \in Documents
    BY <1>6, <1>7, <2>1, <2>2 DEF Documents
  <2> QED BY <1>2, <2>2, <2>3
<1>9. Came(D)
  <2>1. \A i \in DOMAIN <<local>> : <<local>>[i] = local
    OBVIOUS
  <2>2. <<local>>[Len(<<local>>)] = local
    OBVIOUS
  <2> QED BY <1>7, <1>8, <2>1, <2>2 DEF Came
<1>10. Bounds(D)
  BY <1>1, <1>5, <1>6, <1>8 DEF Bounds
<1>11. OfTable(D)
  BY <1>2, <1>5, <1>6, <1>8 DEF OfTable, T
<1> QED BY <1>8, <1>9, <1>10, <1>11 DEF Proper, D

-----------------------------------------------------------------------------
(* The steps.                                                              *)
LEMMA RulesStart == RulesInit => RulesInv
<1> SUFFICES ASSUME RulesInit PROVE RulesInv
  OBVIOUS
<1>1. NoDocument \in Loadable /\ NoDocument \notin Documents
  BY DocumentIs DEF Loadable
<1>2. RulesType
  BY <1>1, NoneIs, RulesAssumption DEF RulesInit, RulesType
<1> QED BY <1>1, <1>2, NoneIs DEF RulesInit, RulesInv, Vouched, Witnessed, Kept

\* A command's record with another field.
LEMMA JobIs ==
  ASSUME NEW j \in Jobs
  PROVE  /\ j.over \in Loadable /\ j.got \in Loadable /\ j.build \in Release
         /\ j.evidence \in SUBSET Testimony /\ j.unread \in SUBSET LedgerSession
         /\ \A d \in Loadable :
               LET k == [j EXCEPT !.got = d]
               IN  k \in Jobs /\ k.got = d /\ k.over = j.over /\ k.evidence = j.evidence
         /\ \A x \in Databases :
               LET k == [j EXCEPT !.db = x]
               IN  k \in Jobs /\ k.got = j.got /\ k.over = j.over /\ k.evidence = j.evidence
         /\ \A u \in SUBSET LedgerSession :
               LET k == [j EXCEPT !.unread = u]
               IN  k \in Jobs /\ k.got = j.got /\ k.over = j.over /\ k.evidence = j.evidence
         /\ LET k == [j EXCEPT !.step = "writes"]
            IN  k \in Jobs /\ k.got = j.got /\ k.over = j.over /\ k.evidence = j.evidence
  BY DEF Jobs

LEMMA ReaderIs ==
  ASSUME NEW j \in Jobs, NEW u \in SUBSET LedgerSession, NEW v \in SUBSET Testimony
  PROVE  LET k == [j EXCEPT !.unread = u, !.evidence = v]
         IN  k \in Jobs /\ k.got = j.got /\ k.over = j.over /\ k.evidence = v
  BY DEF Jobs

LEMMA StartReportStep ==
  ASSUME RulesInv, NEW p \in Invocation, StartReport(p)
  PROVE  RulesInv'
<1>1. RulesType /\ Vouched
  BY DEF RulesInv
<1>2. /\ Started("reports") \in Jobs /\ Started("reports").evidence = {}
      /\ Started("reports").got = NoDocument
      /\ Started("reports").over \in Documents => Proper(Started("reports").over)
  BY <1>1, StartedIs
<1>3. NoDocument \notin Documents
  BY DocumentIs
<1>4. Goes(p, Started("reports")) /\ UNCHANGED <<rulesFile, shipped, day, served, measured, said>>
  BY DEF StartReport
<1> DEFINE j == Started("reports")
<1> HIDE DEF j
<1> QED BY <1>2, <1>3, <1>4, QuietCommand DEF j

LEMMA StartUpdateStep ==
  ASSUME RulesInv, NEW p \in Invocation, NEW c \in Sources, StartUpdate(p, c)
  PROVE  RulesInv'
<1>1. RulesType /\ Vouched
  BY DEF RulesInv
<1>2. NoDocument \notin Documents
  BY DocumentIs
<1>3. UNCHANGED <<rulesFile, shipped, day, served, measured, said>>
  BY DEF StartUpdate
<1>4. CASE Refused(c) \/ ~validate(c.answer)
  <2>1. Goes(p, Started("ends"))
    BY <1>4 DEF StartUpdate
  <2>2. /\ Started("ends") \in Jobs /\ Started("ends").evidence = {}
        /\ Started("ends").got = NoDocument
        /\ Started("ends").over \in Documents => Proper(Started("ends").over)
    BY <1>1, StartedIs
  <2> QED BY <1>2, <1>3, <2>1, <2>2, QuietCommand
<1>5. CASE ~Refused(c) /\ validate(c.answer)
  <2> DEFINE d == stamped(c.answer, c.hops, day)
             j == Started("fetched")
             k == [j EXCEPT !.got = d]
  <2>1. d \in Loadable /\ Proper(d)
    BY <1>5, FetchedIs DEF Loadable
  <2>2. j \in Jobs /\ j.evidence = {} /\ (j.over \in Documents => Proper(j.over))
    BY <1>1, StartedIs
  <2>3. Goes(p, k)
    BY <1>5 DEF StartUpdate
  <2> HIDE DEF d, j
  <2>4. k \in Jobs /\ k.got = d /\ k.over = j.over /\ k.evidence = {}
    BY <2>1, <2>2, JobIs
  <2> HIDE DEF k
  <2> QED BY <1>3, <2>1, <2>2, <2>3, <2>4, QuietCommand
<1> QED BY <1>4, <1>5

LEMMA DescribeStep ==
  ASSUME RulesInv, NEW p \in Invocation, Describe(p)
  PROVE  RulesInv'
<1> DEFINE d == LoadRules(rulesFile)
           j == Started("describes")
           k == [j EXCEPT !.got = d]
<1>1. RulesType /\ Vouched
  BY DEF RulesInv
<1>2. NoDocument \notin Documents
  BY DocumentIs
<1>3. Goes(p, k) /\ UNCHANGED <<rulesFile, shipped, day, served, measured, said>>
  BY DEF Describe
<1>4. d \in Loadable /\ (d = NoDocument \/ d = rulesFile)
  BY <1>1, LoadIs
<1>5. j \in Jobs /\ j.evidence = {} /\ (j.over \in Documents => Proper(j.over))
  BY <1>1, StartedIs
<1> HIDE DEF d, j
<1>6. d \in Documents => Proper(d)
  BY <1>1, <1>2, <1>4 DEF Vouched
<1>7. k \in Jobs /\ k.got = d /\ k.over = j.over /\ k.evidence = {}
  BY <1>4, <1>5, JobIs
<1> HIDE DEF k
<1> QED BY <1>3, <1>5, <1>6, <1>7, QuietCommand

LEMMA CheckPricesStep ==
  ASSUME RulesInv, NEW p \in Invocation, runCheckPrices(p)
  PROVE  RulesInv'
<1>1. PICK x \in Databases : Goes(p, [Started("checks") EXCEPT !.db = x])
  BY DEF runCheckPrices
<1> DEFINE j == Started("checks")
           k == [j EXCEPT !.db = x]
<1>2. Goes(p, k) /\ UNCHANGED <<rulesFile, shipped, day, served, measured, said>>
  BY <1>1 DEF runCheckPrices
<1>3. RulesType /\ Vouched
  BY DEF RulesInv
<1>4. /\ j \in Jobs /\ j.evidence = {} /\ j.got = NoDocument
      /\ j.over \in Documents => Proper(j.over)
  BY <1>3, StartedIs
<1>5. NoDocument \notin Documents
  BY DocumentIs
<1> HIDE DEF j
<1>6. k \in Jobs /\ k.got = j.got /\ k.over = j.over /\ k.evidence = {}
  BY <1>4, JobIs
<1> HIDE DEF k
<1> QED BY <1>2, <1>4, <1>5, <1>6, QuietCommand

LEMMA StartMeasureStep ==
  ASSUME RulesInv, NEW p \in Invocation, StartMeasure(p)
  PROVE  RulesInv'
<1> DEFINE u == {s \in LedgerSession : served[s] # {}}
           j == Started("measures")
           k == [j EXCEPT !.unread = u]
<1>1. u \in SUBSET LedgerSession
  OBVIOUS
<1>2. Goes(p, k) /\ UNCHANGED <<rulesFile, shipped, day, served, measured, said>>
  BY DEF StartMeasure
<1>3. RulesType /\ Vouched
  BY DEF RulesInv
<1>4. /\ j \in Jobs /\ j.evidence = {} /\ j.got = NoDocument
      /\ j.over \in Documents => Proper(j.over)
  BY <1>3, StartedIs
<1>5. NoDocument \notin Documents
  BY DocumentIs
<1> HIDE DEF j, u
<1>6. k \in Jobs /\ k.got = j.got /\ k.over = j.over /\ k.evidence = {}
  BY <1>1, <1>4, JobIs
<1> HIDE DEF k
<1> QED BY <1>2, <1>4, <1>5, <1>6, QuietCommand

LEMMA ReadRecordsStep ==
  ASSUME RulesInv, NEW p \in Invocation, NEW s \in LedgerSession, ReadRecords(p, s)
  PROVE  RulesInv'
<1> DEFINE j == running[p]
<1>1. PICK evidence \in {{}, EvidenceFrom(served[s])} :
          Goes(p, [j EXCEPT !.unread = @ \ {s}, !.evidence = @ \cup evidence])
  BY DEF ReadRecords
<1> DEFINE u == j.unread \ {s}
           v == j.evidence \cup evidence
           k == [j EXCEPT !.unread = u, !.evidence = v]
<1>2. Goes(p, k) /\ UNCHANGED <<rulesFile, shipped, day, served, measured, said>>
  BY <1>1 DEF ReadRecords
<1>3. /\ j \in Jobs /\ (j.over \in Documents => Proper(j.over))
      /\ (j.got \in Documents => Proper(j.got))
      /\ \A e \in j.evidence : RealFloor[e.model] <= e.prefix
  BY DEF RulesInv, RulesType, Vouched, Witnessed
<1>4. \A e \in EvidenceFrom(served[s]) : e \in Testimony /\ RealFloor[e.model] <= e.prefix
  <2> SUFFICES ASSUME NEW r \in served[s], Testifies(r)
               PROVE  /\ [model |-> r.model, prefix |-> r.created] \in Testimony
                      /\ RealFloor[r.model] <= r.created
    BY DEF EvidenceFrom
  <2>1. r \in Served1 /\ RealFloor[r.model] <= r.created
    BY DEF RulesInv, RulesType, Witnessed
  <2> QED BY <2>1 DEF Served1, Testimony
<1>5. u \in SUBSET LedgerSession /\ v \in SUBSET Testimony
      /\ \A e \in v : RealFloor[e.model] <= e.prefix
  BY <1>1, <1>3, <1>4, JobIs
<1> HIDE DEF j, u, v
<1>6. k \in Jobs /\ k.got = j.got /\ k.over = j.over /\ k.evidence = v
  BY <1>3, <1>5, ReaderIs
<1> HIDE DEF k
<1> QED BY <1>2, <1>3, <1>5, <1>6, QuietCommand

LEMMA EndStep ==
  ASSUME RulesInv, NEW p \in Invocation, End(p)
  PROVE  RulesInv'
<1>1. NoDocument \notin Documents
  BY DocumentIs
<1>2. Goes(p, None) /\ UNCHANGED <<rulesFile, shipped, day, served, measured, said>>
  BY DEF End
<1> QED BY <1>1, <1>2, NoneIs, QuietCommand

\* A step that writes the file.
LEMMA FileStep ==
  ASSUME RulesInv, NEW p \in Invocation, NEW j \in Jobs, Goes(p, j),
         j.over \in Documents => Proper(j.over), j.got \in Documents => Proper(j.got),
         \A e \in j.evidence : RealFloor[e.model] <= e.prefix,
         rulesFile' \in Documents \cup {NoDocument, Emptied, Garbled},
         rulesFile' \in Documents => Proper(rulesFile'),
         said' \in Loadable, said' # NoDocument => rulesFile' = said',
         UNCHANGED <<shipped, day, served, measured>>
  PROVE  RulesInv'
<1>1. /\ running' \in [Invocation -> Jobs]
      /\ \A q \in Invocation :
            /\ running'[q].over \in Documents => Proper(running'[q].over)
            /\ running'[q].got \in Documents => Proper(running'[q].got)
            /\ \A e \in running'[q].evidence : RealFloor[e.model] <= e.prefix
  BY CommandStep
<1> QED BY <1>1 DEF RulesInv, RulesType, Vouched, Witnessed, Kept

LEMMA WritingSteps ==
  ASSUME RulesInv, NEW p \in Invocation,
         Open(p) \/ WriteFails(p) \/ \E f \in {running[p].got, Garbled} : Write(p, f)
  PROVE  RulesInv'
<1>1. NoDocument \notin Documents /\ Emptied \notin Documents /\ Garbled \notin Documents
  BY DocumentIs
<1>2. NoDocument \in Loadable
  BY DEF Loadable
<1> DEFINE j == running[p]
<1>3. /\ j \in Jobs /\ (j.over \in Documents => Proper(j.over))
      /\ (j.got \in Documents => Proper(j.got))
      /\ \A e \in j.evidence : RealFloor[e.model] <= e.prefix
  BY DEF RulesInv, RulesType, Vouched, Witnessed
<1>4. j.got \in Loadable /\ j.got \in Documents \cup {NoDocument}
  BY <1>3, JobIs DEF Loadable
<1>5. CASE Open(p)
  <2> DEFINE k == [j EXCEPT !.step = "writes"]
  <2>1. Goes(p, k) /\ rulesFile' = Emptied /\ said' = NoDocument
        /\ UNCHANGED <<shipped, day, served, measured>>
    BY <1>5 DEF Open
  <2> HIDE DEF j
  <2>2. k \in Jobs /\ k.got = j.got /\ k.over = j.over /\ k.evidence = j.evidence
    BY <1>3, JobIs
  <2> HIDE DEF k
  <2> QED BY <1>1, <1>2, <1>3, <2>1, <2>2, FileStep
<1>6. CASE WriteFails(p)
  <2>1. Goes(p, None) /\ rulesFile' = Garbled /\ said' = NoDocument
        /\ UNCHANGED <<shipped, day, served, measured>>
    BY <1>6 DEF WriteFails
  <2> QED BY <1>1, <1>2, <2>1, NoneIs, FileStep
<1>7. ASSUME NEW f \in {running[p].got, Garbled}, Write(p, f) PROVE RulesInv'
  <2>1. Goes(p, None) /\ rulesFile' = f /\ UNCHANGED <<shipped, day, served, measured>>
    BY <1>7 DEF Write
  <2>2. f = j.got \/ f = Garbled
    OBVIOUS
  <2>3. said' = NoDocument \/ (said' = j.got /\ f = j.got)
    BY <1>7 DEF Write
  <2> HIDE DEF j
  <2>4. rulesFile' \in Documents \cup {NoDocument, Emptied, Garbled}
        /\ (rulesFile' \in Documents => Proper(rulesFile'))
    BY <1>1, <1>3, <1>4, <2>1, <2>2
  <2>5. said' \in Loadable /\ (said' # NoDocument => rulesFile' = said')
    BY <1>2, <1>4, <2>1, <2>3
  <2> QED BY <1>1, <2>1, <2>4, <2>5, NoneIs, FileStep
<1> QED BY <1>5, <1>6, <1>7

LEMMA MeasureStep ==
  ASSUME RulesInv, NEW p \in Invocation, measureRules(p)
  PROVE  RulesInv'
<1>1. /\ measured' = MeasuredRules(running[p].build, running[p].over, running[p].evidence, day)
      /\ Goes(p, None) /\ UNCHANGED <<rulesFile, shipped, day, served, said>>
  BY DEF measureRules
<1>2. running[p] \in Jobs /\ \A e \in running[p].evidence : RealFloor[e.model] <= e.prefix
  BY DEF RulesInv, RulesType, Witnessed
<1>3. day \in Nat
  BY DEF RulesInv, RulesType
<1>4. measured' \in Documents /\ Proper(measured')
  BY <1>1, <1>2, <1>3, JobIs, MeasuredIs
<1>5. NoDocument \notin Documents
  BY DocumentIs
<1>6. /\ running' \in [Invocation -> Jobs]
      /\ \A q \in Invocation :
            /\ running'[q].over \in Documents => Proper(running'[q].over)
            /\ running'[q].got \in Documents => Proper(running'[q].got)
            /\ \A e \in running'[q].evidence : RealFloor[e.model] <= e.prefix
  BY <1>1, <1>5, NoneIs, CommandStep
<1> QED BY <1>1, <1>4, <1>6 DEF RulesInv, RulesType, Vouched, Witnessed, Kept

LEMMA ServeStep ==
  ASSUME RulesInv, NEW s \in LedgerSession, NEW id \in Name, NEW n \in Prompt, Serve(s, id, n)
  PROVE  RulesInv'
<1>1. n \in Nat /\ RealFloor[id] \in Nat \ {0}
  BY RulesAssumption
<1>2. served \in [LedgerSession -> SUBSET Served1]
  BY DEF RulesInv, RulesType
<1>3. PICK r : /\ \/ r = Record(id, TRUE, IF n >= RealFloor[id] THEN n ELSE 0, 0)
                  \/ r = Record(id, FALSE, n, 0)
                  \/ \E q \in served[s] :
                        /\ q.created > 0 /\ q.created + q.read < n
                        /\ r = Record(id, TRUE, n - (q.created + q.read), q.created + q.read)
               /\ served' = [served EXCEPT ![s] = @ \cup {r}]
  BY DEF Serve
<1>4. r \in Served1 /\ (Testifies(r) => RealFloor[r.model] <= r.created)
  <2>1. CASE r = Record(id, TRUE, IF n >= RealFloor[id] THEN n ELSE 0, 0)
    BY <1>1, <2>1 DEF Record, Served1, Testifies
  <2>2. CASE r = Record(id, FALSE, n, 0)
    BY <1>1, <2>2 DEF Record, Served1, Testifies
  <2>3. CASE \E q \in served[s] :
               /\ q.created > 0 /\ q.created + q.read < n
               /\ r = Record(id, TRUE, n - (q.created + q.read), q.created + q.read)
    <3>1. PICK q \in served[s] :
               /\ q.created > 0 /\ q.created + q.read < n
               /\ r = Record(id, TRUE, n - (q.created + q.read), q.created + q.read)
      BY <2>3
    <3>2. q.created \in Nat /\ q.read \in Nat
      BY <1>2 DEF Served1
    <3>3. n - (q.created + q.read) \in Nat /\ q.created + q.read \in Nat /\ q.created + q.read # 0
      BY <1>1, <3>1, <3>2
    <3> QED BY <3>1, <3>3 DEF Record, Served1, Testifies
  <2> QED BY <1>3, <2>1, <2>2, <2>3
<1>5. served' \in [LedgerSession -> SUBSET Served1]
  BY <1>2, <1>3, <1>4
<1>6. \A x \in LedgerSession : \A q \in served'[x] : q = r \/ q \in served[x]
  BY <1>2, <1>3
<1>7. UNCHANGED <<rulesFile, running, shipped, day, measured, said>>
  BY DEF Serve
<1> QED BY <1>4, <1>5, <1>6, <1>7 DEF RulesInv, RulesType, Vouched, Witnessed, Kept

LEMMA HandEditStep ==
  ASSUME RulesInv, HandEdit
  PROVE  RulesInv'
<1>1. /\ rulesFile' \in HandMade \cup {NoDocument} /\ said' = NoDocument
      /\ UNCHANGED <<running, shipped, day, served, measured>>
  BY DEF HandEdit
<1>2. NoDocument \notin Documents /\ NoDocument \in Loadable
  BY DocumentIs DEF Loadable
<1>3. rulesFile' \in Documents \cup {NoDocument} /\ (rulesFile' \in Documents => Proper(rulesFile'))
  BY <1>1, <1>2, RulesAssumption DEF Proper, Came, Bounds
<1> QED BY <1>1, <1>2, <1>3 DEF RulesInv, RulesType, Vouched, Witnessed, Kept

LEMMA ReleaseStep ==
  ASSUME RulesInv, NewRelease
  PROVE  RulesInv'
  BY DEF RulesInv, NewRelease, RulesType, Vouched, Witnessed, Kept

LEMMA DayStep ==
  ASSUME RulesInv, NextDay
  PROVE  RulesInv'
<1>1. day' \in 1..MaxDay
  BY RulesAssumption DEF RulesInv, RulesType, NextDay
<1> QED BY <1>1 DEF RulesInv, NextDay, RulesType, Vouched, Witnessed, Kept

LEMMA RulesStep == RulesInv /\ [RulesNext]_rulesVars => RulesInv'
<1> SUFFICES ASSUME RulesInv, [RulesNext]_rulesVars PROVE RulesInv'
  OBVIOUS
<1>1. CASE UNCHANGED rulesVars
  BY <1>1 DEF rulesVars, RulesInv, RulesType, Vouched, Witnessed, Kept
<1>2. ASSUME NEW p \in Invocation,
             \/ StartReport(p) \/ Open(p) \/ WriteFails(p) \/ End(p)
             \/ Describe(p) \/ runCheckPrices(p) \/ StartMeasure(p) \/ measureRules(p)
             \/ \E c \in Sources : StartUpdate(p, c)
             \/ \E f \in {running[p].got, Garbled} : Write(p, f)
             \/ \E s \in LedgerSession : ReadRecords(p, s)
      PROVE  RulesInv'
  <2>1. CASE StartReport(p)
    BY <2>1, StartReportStep
  <2>2. CASE Open(p) \/ WriteFails(p) \/ \E f \in {running[p].got, Garbled} : Write(p, f)
    BY <2>2, WritingSteps
  <2>3. CASE End(p)
    BY <2>3, EndStep
  <2>4. CASE Describe(p)
    BY <2>4, DescribeStep
  <2>5. CASE runCheckPrices(p)
    BY <2>5, CheckPricesStep
  <2>6. CASE StartMeasure(p)
    BY <2>6, StartMeasureStep
  <2>7. CASE measureRules(p)
    BY <2>7, MeasureStep
  <2>8. CASE \E c \in Sources : StartUpdate(p, c)
    BY <2>8, StartUpdateStep
  <2>9. CASE \E s \in LedgerSession : ReadRecords(p, s)
    BY <2>9, ReadRecordsStep
  <2> QED BY <1>2, <2>1, <2>2, <2>3, <2>4, <2>5, <2>6, <2>7, <2>8, <2>9
<1>3. CASE \E s \in LedgerSession, id \in Name, n \in Prompt : Serve(s, id, n)
  BY <1>3, ServeStep
<1>4. CASE HandEdit
  BY <1>4, HandEditStep
<1>5. CASE NewRelease
  BY <1>5, ReleaseStep
<1>6. CASE NextDay
  BY <1>6, DayStep
<1> QED BY <1>1, <1>2, <1>3, <1>4, <1>5, <1>6 DEF RulesNext

\* What the invariant says of every report, update, claim and comparison.
LEMMA RulesInvGives == RulesInv => RulesAreTrue
<1> SUFFICES ASSUME RulesInv PROVE RulesAreTrue
  OBVIOUS
<1>1. RulesType /\ Vouched /\ Witnessed /\ Kept
  BY DEF RulesInv
<1>2. \A p \in Invocation :
          /\ running[p].build \in Release /\ running[p].over \in Documents \cup {NoDocument}
          /\ running[p].over # NoDocument => running[p].over \in Documents /\ validate(running[p].over)
  BY <1>1, JobIs DEF RulesType, Loadable
<1>3. \A d \in Carried : d.is = "document" => d \in Documents /\ Proper(d)
  <2> SUFFICES ASSUME NEW d \in Carried, d.is = "document" PROVE d \in Documents /\ Proper(d)
    OBVIOUS
  <2>1. d \in Documents \cup {NoDocument, Emptied, Garbled}
    <3>1. \A p \in Invocation : running[p].over \in Loadable /\ running[p].got \in Loadable
      BY <1>1, JobIs DEF RulesType
    <3>2. Loadable \subseteq Documents \cup {NoDocument}
      BY DEF Loadable
    <3>3. {rulesFile, measured} \subseteq Documents \cup {NoDocument, Emptied, Garbled}
      BY <1>1 DEF RulesType
    <3> QED BY <3>1, <3>2, <3>3 DEF Carried
  <2>2. d \in Documents
    BY <2>1, DocumentIs
  <2> QED BY <1>1, <2>2 DEF Carried, Vouched
<1>4. InstalledIsKept
  BY <1>1 DEF InstalledIsKept, Kept, RulesType, Loadable, LoadRules
<1>5. CameAsItSays
  <2> SUFFICES ASSUME NEW d \in Carried, d.is = "document", d.maker # "hand"
               PROVE  /\ d.source = d.hops[Len(d.hops)]
                      /\ \A i \in DOMAIN d.hops : d.hops[i].scheme # "http"
                      /\ rulesAge(d, day) \in {"current", "stale"}
    BY DEF CameAsItSays
  <2>1. d \in Documents /\ Came(d)
    BY <1>3 DEF Proper
  <2>2. d # NoDocument /\ d.fetched # Unset /\ d.fetched # Unreadable
    BY <2>1, DocumentIs DEF Came, Unset, Unreadable
  <2> QED BY <2>1, <2>2 DEF Came, rulesAge
<1>6. DigestTellsApart
  <2> SUFFICES ASSUME NEW p \in Reports, NEW q \in Reports,
                      PricingDigest(running[p].build, running[p].over)
                         = PricingDigest(running[q].build, running[q].over),
                      NEW id \in Name, NEW t \in 0..MaxDay
               PROVE  Figures(running[p].build, running[p].over, id, t)
                         = Figures(running[q].build, running[q].over, id, t)
    BY DEF DigestTellsApart
  <2>1. t \in Nat /\ p \in Invocation /\ q \in Invocation
    BY DEF Reports
  <2> QED BY <1>2, <2>1, DigestCovers
<1>7. PricedInItsTime
  <2> SUFFICES ASSUME NEW p \in Reports, NEW id \in Name, NEW t \in 1..MaxDay,
                      running[p].over # NoDocument
               PROVE  LET b == running[p].build
                          d == running[p].over
                          quote == PriceForAt(b, d, id, t)
                          of(i) == applyDiscount(d, d.rows[i])
                      IN  /\ \A i \in Promotions(d, id, t) :
                                /\ d.rows[i].priced
                                /\ \A j \in Promotions(d, id, t) : d.rows[j].match = d.rows[i].match
                                => quote = of(i)
                          /\ quote = ListPrice(lookup(b, id)) \/ \E i \in InForce(d, id, t) : quote = of(i)
    BY DEF PricedInItsTime
  <2>1. t \in Nat /\ t # 0 /\ p \in Invocation
    BY DEF Reports
  <2> QED BY <1>2, <2>1, TimeIsKept
<1>8. ExportIsComplete
  <2> SUFFICES ASSUME NEW p \in Reports, NEW id \in Name, NEW t \in 0..MaxDay,
                      running[p].over # NoDocument, running[p].over.table = running[p].build
               PROVE  Figures(running[p].build, running[p].over, id, t)
                         = Figures(running[p].build, NoDocument, id, t)
    BY DEF ExportIsComplete
  <2>1. t \in Nat /\ p \in Invocation
    BY DEF Reports
  <2>2. running[p].over \in Documents /\ running[p].over.table # 0
    BY <1>2, <2>1, RulesAssumption
  <2>3. OfTable(running[p].over)
    BY <1>1, <2>1, <2>2 DEF Vouched, Proper
  <2> QED BY <2>1, <2>2, <2>3, ExportPrices
<1>9. ClaimsAreReal
  <2> SUFFICES ASSUME NEW d \in Carried, d.is = "document", d.maker = "measure",
                      NEW i \in DOMAIN d.rows, d.rows[i].claim # NoClaim
               PROVE  /\ RealFloor[d.rows[i].claim.model] <= d.rows[i].claim.upper
                      /\ Status(d.rows[i].claim) = "contradicted"
                         => RealFloor[d.rows[i].claim.model] < d.rows[i].claim.documented
    BY DEF ClaimsAreReal
  <2> DEFINE c == d.rows[i].claim
  <2>1. d \in Documents /\ Bounds(d)
    BY <1>3 DEF Proper
  <2>2. c.upper \in Nat /\ c.lower = Unset /\ RealFloor[c.model] <= c.upper
    BY <2>1 DEF Bounds
  <2>3. c \in Claims
    BY <2>1, RowsAre, RowIs
  <2>4. RealFloor[c.model] \in Nat /\ c.documented \in Int
    BY <2>3, RulesAssumption DEF Claims
  <2> HIDE DEF c
  <2>5. Status(c) = "contradicted" => c.documented > c.upper
    BY <2>2 DEF Status
  <2>6. Status(c) = "contradicted" => RealFloor[c.model] < c.documented
    BY <2>2, <2>4, <2>5
  <2> QED BY <2>2, <2>6 DEF c
<1>10. CheckIsHonest
  BY PricesAreCompared DEF CheckIsHonest
<1> QED BY <1>4, <1>5, <1>6, <1>7, <1>8, <1>9, <1>10, LabelsAreTrue, BreaksAreTrue
       DEF RulesAreTrue

\* The rules document, for any builds, feeds, ledgers and number of commands:
\* an update that said it installed did, every document came from where it says
\* over no cleartext hop, a report prices by what was in force, equal digests
\* mean equal figures, an export prices as the build does, and no claim
\* measured from the ledger calls a figure of the provider's wrong that is right.
THEOREM RulesAreAlwaysTrue == RulesSpec => []RulesAreTrue
<1>1. RulesSpec => []RulesInv
  BY RulesStart, RulesStep, PTL DEF RulesSpec
<1> QED BY <1>1, RulesInvGives, PTL

=============================================================================
