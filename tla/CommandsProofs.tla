--------------------------- MODULE CommandsProofs ---------------------------
(***************************************************************************)
(* Proofs about the commands beside the proxy: what stands at the path of  *)
(* the installed binary (Upgrade), where the user's settings are while one *)
(* of them is changed (Settings), the bracket of a probe run               *)
(* (ProbeSearch), the series its readings go into (Series), what a key of  *)
(* the terminal interface does (Screen), and what appends, restarts and    *)
(* purges leave in the ledger file (LedgerFile), a log of LedgerLog.       *)
(***************************************************************************)
EXTENDS LedgerFile, Series, ProbeSearch, Upgrade, Settings, Screen, FiniteSetTheorems,
        WellFoundedInduction, TLAPS

-----------------------------------------------------------------------------
(* The installed binary. *)

\* What a command has established by the time it has come this far: each check
\* is passed once and the downloads it was about are not touched again.
Established(c) ==
    /\ at[c] \in {"signature", "verify", "unpack", "staging", "run", "rename"} =>
         archive[c] \in Builds /\ sums[c] = archive[c]
    /\ at[c] \in {"unpack", "staging", "run", "rename"} =>
         archive[c] \in checked /\ (cosign => archive[c] \notin Foreign)
    /\ at[c] \in {"run", "rename"} => staged[c] = archive[c]
    /\ at[c] = "rename" => staged[c] \in ran /\ staged[c] \in Runnable

\* The digest names a whole build: an archive that matches checksums which
\* were downloaded undamaged, and which the command has downloaded at all.
Downloaded(c) ==
    /\ at[c] = "digest" => archive[c] # NotThere /\ sums[c] # NotThere
    /\ at[c] = "sums" => archive[c] # NotThere

UpgradeInv ==
    /\ InstalledIsProven
    /\ \A c \in Cmd : Established(c) /\ Downloaded(c)

LEMMA UpgradeInitInv == UpgradeInit => UpgradeInv
  <1> SUFFICES ASSUME UpgradeInit PROVE UpgradeInv
    OBVIOUS
  <1> USE UpgradeAssumption DEF UpgradeInit
  <1>1. UpgradeTypeOK
    BY DEF UpgradeTypeOK, Content, NotThere, Damaged, Installed
  <1>2. \A c \in Cmd : Established(c) /\ Downloaded(c)
    BY DEF Established, Downloaded
  <1> QED
    BY <1>1, <1>2 DEF UpgradeInv, InstalledIsProven, Installed

\* One command's step leaves what the others have established alone: it changes
\* only its own downloads, and the record of checks and runs only grows.
LEMMA OthersKeep ==
    ASSUME UpgradeInv, NEW c \in Cmd, NEW d \in Cmd, d # c,
           at'[d] = at[d], archive'[d] = archive[d], sums'[d] = sums[d],
           staged'[d] = staged[d], cosign' = cosign,
           checked \subseteq checked', ran \subseteq ran'
    PROVE  Established(d)' /\ Downloaded(d)'
  BY DEF UpgradeInv, Established, Downloaded

LEMMA UpgradeStepInv ==
    ASSUME UpgradeInv, [UpgradeNext]_upgradeVars PROVE UpgradeInv'
  <1> USE UpgradeAssumption
  <1>t. UpgradeTypeOK
    BY DEF UpgradeInv, InstalledIsProven
  <1> DEFINE OwnStep(c) ==
        /\ cosign' = cosign
        /\ checked \subseteq checked' /\ ran \subseteq ran'
        /\ \A d \in Cmd \ {c} : /\ at'[d] = at[d] /\ archive'[d] = archive[d]
                                /\ sums'[d] = sums[d] /\ staged'[d] = staged[d]
  <1>q. ASSUME NEW c \in Cmd, OwnStep(c), Established(c)', Downloaded(c)', InstalledIsProven'
        PROVE  UpgradeInv'
    BY <1>q, OthersKeep DEF UpgradeInv
  <1>s. ASSUME UpgradeTypeOK', dest' = dest, cosign' = cosign,
               checked \subseteq checked', ran \subseteq ran'
        PROVE  InstalledIsProven'
    BY <1>s DEF UpgradeInv, InstalledIsProven
  <1> USE <1>t DEF Goto, world
  <1>1. CASE UNCHANGED upgradeVars
    BY <1>1 DEF upgradeVars, UpgradeInv, InstalledIsProven, UpgradeTypeOK, Established,
                Downloaded, Content
  <1>2. CASE Publish
    <2>1. UpgradeTypeOK'
      BY <1>2 DEF Publish, UpgradeTypeOK
    <2> QED
      BY <1>2, <1>s, <2>1 DEF Publish, UpgradeInv, Established, Downloaded
  <1>3. ASSUME NEW c \in Cmd, GetArchive(c) PROVE UpgradeInv'
    <2>1. PICK got \in {release, Damaged} :
            archive' = [archive EXCEPT ![c] = got]
      BY <1>3 DEF GetArchive, Downloads
    <2>2. got \in Content /\ got # NotThere
      BY <2>1 DEF UpgradeTypeOK, Content, Damaged, NotThere
    <2>3. UpgradeTypeOK'
      BY <1>3, <2>1, <2>2 DEF GetArchive, Downloads, UpgradeTypeOK
    <2>4. OwnStep(c) /\ InstalledIsProven'
      BY <1>3, <1>s, <2>1, <2>3 DEF GetArchive, Downloads, UpgradeTypeOK
    <2>5. Established(c)' /\ Downloaded(c)'
      BY <1>3, <2>1, <2>2 DEF GetArchive, Downloads, UpgradeTypeOK, Established, Downloaded
    <2> QED
      BY <1>q, <2>4, <2>5
  <1>4. ASSUME NEW c \in Cmd, GetSums(c) PROVE UpgradeInv'
    <2>1. PICK got \in {release, Damaged} : sums' = [sums EXCEPT ![c] = got]
      BY <1>4 DEF GetSums, Downloads
    <2>2. got \in Content /\ got # NotThere
      BY <2>1 DEF UpgradeTypeOK, Content, Damaged, NotThere
    <2>3. UpgradeTypeOK'
      BY <1>4, <2>1, <2>2 DEF GetSums, Downloads, UpgradeTypeOK
    <2>4. OwnStep(c) /\ InstalledIsProven'
      BY <1>4, <1>s, <2>1, <2>3 DEF GetSums, Downloads, UpgradeTypeOK
    <2>5. Established(c)' /\ Downloaded(c)'
      BY <1>4, <2>1, <2>2 DEF GetSums, Downloads, UpgradeTypeOK, Established, Downloaded,
                              UpgradeInv
    <2> QED
      BY <1>q, <2>4, <2>5
  <1>5. ASSUME NEW c \in Cmd, CheckDigest(c) PROVE UpgradeInv'
    <2>1. archive[c] \in Builds /\ sums[c] = archive[c]
      BY <1>5 DEF CheckDigest, Matches, UpgradeInv, Downloaded, UpgradeTypeOK, Content
    <2>2. UpgradeTypeOK'
      BY <1>5 DEF CheckDigest, UpgradeTypeOK
    <2>3. checked \subseteq checked' /\ (~cosign => archive[c] \in checked')
      BY <1>5, <2>1 DEF CheckDigest
    <2>4. OwnStep(c) /\ InstalledIsProven'
      BY <1>5, <1>s, <2>2, <2>3 DEF CheckDigest, UpgradeTypeOK
    <2>5. Established(c)' /\ Downloaded(c)'
      BY <1>5, <2>1, <2>3 DEF CheckDigest, UpgradeTypeOK, Established, Downloaded
    <2> QED
      BY <1>q, <2>4, <2>5
  <1>6. ASSUME NEW c \in Cmd, GetSignature(c) PROVE UpgradeInv'
    <2>1. PICK got \in {release, Damaged} : signature' = [signature EXCEPT ![c] = got]
      BY <1>6 DEF GetSignature, Downloads
    <2>2. UpgradeTypeOK'
      BY <1>6, <2>1 DEF GetSignature, Downloads, UpgradeTypeOK, Content
    <2>3. OwnStep(c) /\ InstalledIsProven'
      BY <1>6, <1>s, <2>2 DEF GetSignature, Downloads, UpgradeTypeOK
    <2>4. Established(c)' /\ Downloaded(c)'
      BY <1>6 DEF GetSignature, Downloads, UpgradeTypeOK, Established, Downloaded, UpgradeInv
    <2> QED
      BY <1>q, <2>3, <2>4
  <1>7. ASSUME NEW c \in Cmd, VerifySignature(c) PROVE UpgradeInv'
    <2>1. archive[c] \in Builds /\ sums[c] = archive[c]
      BY <1>7 DEF VerifySignature, UpgradeInv, Established
    <2>2. UpgradeTypeOK'
      BY <1>7 DEF VerifySignature, UpgradeTypeOK
    <2>3. checked \subseteq checked' /\ archive[c] \in checked'
      BY <1>7, <2>1 DEF VerifySignature
    <2>4. OwnStep(c) /\ InstalledIsProven'
      BY <1>7, <1>s, <2>2, <2>3 DEF VerifySignature, UpgradeTypeOK
    <2>5. Established(c)' /\ Downloaded(c)'
      BY <1>7, <2>1, <2>3 DEF VerifySignature, UpgradeTypeOK, Established, Downloaded
    <2> QED
      BY <1>q, <2>4, <2>5
  <1>8. ASSUME NEW c \in Cmd, GiveUp(c) \/ Kill(c) PROVE UpgradeInv'
    <2>1. UpgradeTypeOK'
      BY <1>8 DEF GiveUp, Kill, Ends, UpgradeTypeOK, Content
    <2>2. OwnStep(c) /\ InstalledIsProven'
      BY <1>8, <1>s, <2>1 DEF GiveUp, Kill, Ends, UpgradeTypeOK
    <2>3. Established(c)' /\ Downloaded(c)'
      BY <1>8 DEF GiveUp, Kill, Ends, UpgradeTypeOK, Established, Downloaded
    <2> QED
      BY <1>q, <2>2, <2>3
  <1>9. ASSUME NEW c \in Cmd, Stage(c) \/ Staged(c) PROVE UpgradeInv'
    <2>1. UpgradeTypeOK'
      BY <1>9 DEF Stage, Staged, UpgradeTypeOK, Content
    <2>2. OwnStep(c) /\ InstalledIsProven'
      BY <1>9, <1>s, <2>1 DEF Stage, Staged, UpgradeTypeOK
    <2>3. Established(c)' /\ Downloaded(c)'
      BY <1>9 DEF Stage, Staged, UpgradeTypeOK, Established, Downloaded, UpgradeInv
    <2> QED
      BY <1>q, <2>2, <2>3
  <1>10. ASSUME NEW c \in Cmd, Run(c) \/ Retry(c) PROVE UpgradeInv'
    <2>1. UpgradeTypeOK'
      BY <1>10 DEF Run, Retry, UpgradeTypeOK
    <2>2. OwnStep(c) /\ InstalledIsProven'
      BY <1>10, <1>s, <2>1 DEF Run, Retry, UpgradeTypeOK
    <2>3. Established(c)' /\ Downloaded(c)'
      BY <1>10 DEF Run, Retry, UpgradeTypeOK, Established, Downloaded, UpgradeInv
    <2> QED
      BY <1>q, <2>2, <2>3
  <1>11. ASSUME NEW c \in Cmd, Rename(c) PROVE UpgradeInv'
    <2>1. /\ staged[c] \in Builds /\ staged[c] \in checked /\ staged[c] \in ran
          /\ staged[c] \in Runnable /\ (cosign => staged[c] \notin Foreign)
      BY <1>11 DEF Rename, UpgradeInv, Established
    <2>2. UpgradeTypeOK'
      BY <1>11, <2>1 DEF Rename, Ends, UpgradeTypeOK, Content
    <2>3. InstalledIsProven'
      BY <1>11, <2>1, <2>2 DEF Rename, Ends, InstalledIsProven
    <2>4. OwnStep(c)
      BY <1>11 DEF Rename, Ends, UpgradeTypeOK
    <2>5. Established(c)' /\ Downloaded(c)'
      BY <1>11 DEF Rename, Ends, UpgradeTypeOK, Established, Downloaded
    <2> QED
      BY <1>q, <2>3, <2>4, <2>5
  <1> QED
    BY <1>1, <1>2, <1>3, <1>4, <1>5, <1>6, <1>7, <1>8, <1>9, <1>10, <1>11 DEF UpgradeNext

\* However many upgrade commands run at once, and however often the release is
\* published again under them, the binary is the old one or a whole build that
\* was matched, verified and run: Apply renames nothing else over it.
THEOREM OnlyProvenIsInstalled == UpgradeSpec => []InstalledIsProven
  <1>1. UpgradeInv => InstalledIsProven
    BY DEF UpgradeInv
  <1> QED
    BY <1>1, UpgradeInitInv, UpgradeStepInv, PTL DEF UpgradeSpec

-----------------------------------------------------------------------------
(* The user's settings. *)

\* The settings as the user last wrote them are in the file while it is whole,
\* and in a backup while it is not.
KeysAreSomewhere ==
    ~overwritten =>
      /\ file # Torn => file.keys = keys
      /\ file = Torn => keys = -1 \/ \E s \in 0..MaxSecond : backup[s].keys = keys

\* What a command holds between its reading and its write: the user's keys, and
\* once the backup is made, a copy of them under the stamp.
HoldsTheKeys ==
    /\ act \in {"backup", "write"} => file # Torn
    /\ ~overwritten =>
         /\ act \in {"backup", "write", "fill"} => existing.keys = keys
         /\ act \in {"write", "fill"} => keys = -1 \/ backup[stamp].keys = keys

\* The stamp names this command's backup, and no record yet, unless two
\* commands have met in one second.
StampIsFresh ==
    ~twice =>
      /\ act \in {"backup", "write", "fill", "verify"} => record[stamp] = NoRecord
      /\ act \in {"write", "fill", "verify"} => backup[stamp] = existing

RecordsAreTrue ==
    \A s \in 0..MaxSecond : record[s] # NoRecord =>
      /\ record[s].event = "INTERVENTION_APPLIED" => record[s].actual = record[s].intended
      /\ twice \/ backup[s] = record[s].prior

SettingsInv ==
    /\ SettingsTypeOK /\ KeysAreSomewhere /\ HoldsTheKeys /\ StampIsFresh /\ RecordsAreTrue

LEMMA SettingsInitInv == SettingsInit => SettingsInv
  <1> SUFFICES ASSUME SettingsInit PROVE SettingsInv
    OBVIOUS
  <1> USE SettingsAssumption DEF SettingsInit
  <1>1. file \in Files
    BY DEF Files, Texts, NoFile
  <1>2. NoFile \in Files
    BY DEF Files, Texts, NoFile
  <1>3. SettingsTypeOK
    <2>1. keys \in -1..MaxEdits /\ want \in Texts
      BY <1>1 DEF Files, Texts
    <2>2. backup \in [0..MaxSecond -> Files]
      BY <1>2
    <2>3. record \in [0..MaxSecond -> Records \cup {NoRecord}]
      OBVIOUS
    <2>4. second \in 0..MaxSecond /\ stamp \in 0..MaxSecond /\ existing \in Files
      BY <1>2
    <2>5. overwritten \in BOOLEAN /\ twice \in BOOLEAN
      BY Zenon
    <2>6. act \in {"idle", "read", "backup", "write", "fill", "verify"}
      OBVIOUS
    <2> QED
      BY <1>1, <2>1, <2>2, <2>3, <2>4, <2>5, <2>6, Zenon DEF SettingsTypeOK
  <1>4. KeysAreSomewhere
    BY DEF KeysAreSomewhere, Torn, NoFile
  <1> QED
    BY <1>3, <1>4 DEF SettingsInv, HoldsTheKeys, StampIsFresh, RecordsAreTrue

LEMMA SettingsStepInv ==
    ASSUME SettingsInv, [SettingsNext]_settingsVars PROVE SettingsInv'
  <1> USE SettingsAssumption
  <1>t. SettingsTypeOK /\ KeysAreSomewhere /\ HoldsTheKeys /\ StampIsFresh /\ RecordsAreTrue
    BY DEF SettingsInv
  <1>f. Torn \in Files /\ NoFile \in Files
    BY DEF Files, Texts, Torn, NoFile
  <1>1. CASE UNCHANGED settingsVars
    BY <1>1, <1>t DEF settingsVars, SettingsInv, SettingsTypeOK, KeysAreSomewhere, HoldsTheKeys,
                      StampIsFresh, RecordsAreTrue
  <1>2. CASE Plan
    <2>1. want' \in Texts
      BY <1>2 DEF Plan, Texts
    <2> QED
      BY <1>2, <1>t, <2>1 DEF Plan, SettingsInv, SettingsTypeOK, KeysAreSomewhere,
                              HoldsTheKeys, StampIsFresh, RecordsAreTrue
  <1>3. CASE Refuse
    <2> DEFINE refusal == [event |-> "INTERVENTION_REFUSED", intended |-> "UNDECIDED",
                           actual |-> file.val, prior |-> NoFile]
    <2>1. refusal \in Records
      BY <1>t, <1>f DEF Records, SettingsTypeOK, Files
    <2>2. /\ record' = [record EXCEPT ![second] = refusal]
          /\ twice' = (twice \/ SecondTaken) /\ act = "idle"
          /\ UNCHANGED <<file, backup, second, act, want, existing, stamp, keys, overwritten>>
      BY <1>3 DEF Refuse
    <2>3. SettingsTypeOK'
      <3>1. record' \in [0..MaxSecond -> Records \cup {NoRecord}]
        BY <1>t, <2>1, <2>2 DEF SettingsTypeOK
      <3>2. twice' \in BOOLEAN
        BY <1>t, <2>2 DEF SettingsTypeOK, SecondTaken
      <3> QED
        BY <1>t, <2>2, <3>1, <3>2 DEF SettingsTypeOK
    <2>4. RecordsAreTrue'
      <3> SUFFICES ASSUME NEW s \in 0..MaxSecond, record'[s] # NoRecord
                   PROVE /\ record'[s].event = "INTERVENTION_APPLIED" =>
                              record'[s].actual = record'[s].intended
                         /\ twice' \/ backup'[s] = record'[s].prior
        BY DEF RecordsAreTrue
      <3>1. CASE s # second
        BY <1>t, <2>2, <3>1 DEF SettingsTypeOK, RecordsAreTrue
      <3>2. CASE s = second
        <4>1. record'[s] = refusal
          BY <1>t, <2>2, <3>2 DEF SettingsTypeOK
        <4>2. ~twice' => backup[second] = NoFile
          BY <2>2 DEF SecondTaken
        <4> QED
          BY <4>1, <4>2, <2>2, <3>2
      <3> QED
        BY <3>1, <3>2
    <2> QED
      BY <1>t, <2>2, <2>3, <2>4 DEF SettingsInv, KeysAreSomewhere, HoldsTheKeys, StampIsFresh
  <1>4. CASE Read
    <2>1. /\ stamp' = second /\ existing' = file /\ twice' = (twice \/ SecondTaken)
          /\ act' = IF file = Torn THEN "idle" ELSE IF file = NoFile THEN "write" ELSE "backup"
          /\ UNCHANGED <<file, backup, second, want, record, keys, overwritten>>
      BY <1>4 DEF Read
    <2>2. SettingsTypeOK'
      <3>1. twice' \in BOOLEAN
        BY <1>t, <2>1 DEF SettingsTypeOK, SecondTaken
      <3> QED
        BY <1>t, <2>1, <3>1 DEF SettingsTypeOK
    <2>3. HoldsTheKeys'
      BY <1>t, <2>1 DEF SettingsTypeOK, KeysAreSomewhere, HoldsTheKeys, NoFile
    <2>4. StampIsFresh'
      BY <1>t, <2>1 DEF SettingsTypeOK, StampIsFresh, SecondTaken
    <2> QED
      BY <1>t, <2>1, <2>2, <2>3, <2>4 DEF SettingsInv, KeysAreSomewhere, RecordsAreTrue
  <1>5. CASE Backup
    <2>1. /\ act = "backup" /\ act' = "write"
          /\ backup' = [backup EXCEPT ![stamp] = existing]
          /\ UNCHANGED <<file, second, want, existing, stamp, record, keys, overwritten, twice>>
      BY <1>5 DEF Backup
    <2>2. SettingsTypeOK'
      BY <1>t, <2>1 DEF SettingsTypeOK
    <2>3. backup'[stamp] = existing /\ \A s \in 0..MaxSecond \ {stamp} : backup'[s] = backup[s]
      BY <1>t, <2>1 DEF SettingsTypeOK
    <2>4. KeysAreSomewhere' /\ HoldsTheKeys' /\ StampIsFresh'
      BY <1>t, <2>1, <2>3 DEF KeysAreSomewhere, HoldsTheKeys, StampIsFresh
    <2>5. RecordsAreTrue'
      BY <1>t, <2>1, <2>3 DEF SettingsTypeOK, StampIsFresh, RecordsAreTrue
    <2> QED
      BY <2>2, <2>4, <2>5 DEF SettingsInv
  <1>6. CASE Truncate
    <2>1. SettingsTypeOK' /\ HoldsTheKeys' /\ StampIsFresh' /\ RecordsAreTrue'
      BY <1>6, <1>t, <1>f DEF Truncate, SettingsTypeOK, HoldsTheKeys, StampIsFresh,
                              RecordsAreTrue
    <2>2. KeysAreSomewhere'
      BY <1>6, <1>t DEF Truncate, SettingsTypeOK, KeysAreSomewhere, HoldsTheKeys
    <2> QED
      BY <2>1, <2>2 DEF SettingsInv
  <1>7. CASE Fill
    <2>1. file' \in Files /\ file'.keys = existing.keys
      BY <1>7, <1>t DEF Fill, SettingsTypeOK, Files
    <2>2. KeysAreSomewhere'
      BY <1>7, <1>t, <2>1 DEF Fill, SettingsTypeOK, KeysAreSomewhere, HoldsTheKeys, Torn
    <2> QED
      BY <1>7, <1>t, <2>1, <2>2 DEF Fill, SettingsInv, SettingsTypeOK, HoldsTheKeys,
                                    StampIsFresh, RecordsAreTrue
  <1>8. CASE Verify
    <2> DEFINE made == [event |-> Event(ReadBack), intended |-> want, actual |-> ReadBack,
                        prior |-> existing]
    <2>1. /\ act = "verify" /\ record' = [record EXCEPT ![stamp] = made]
          /\ act' = "idle" /\ want' = "none" /\ existing' = NoFile /\ stamp' = 0
          /\ UNCHANGED <<file, backup, second, keys, overwritten, twice>>
      BY <1>8 DEF Verify, ApplyEnds
    <2>2. made \in Records /\ (made.event = "INTERVENTION_APPLIED" => made.actual = made.intended)
      BY <1>t DEF Records, SettingsTypeOK, Files, Event, ReadBack
    <2>3. SettingsTypeOK'
      BY <1>t, <1>f, <2>1, <2>2 DEF SettingsTypeOK, Texts
    <2>4. RecordsAreTrue'
      <3> SUFFICES ASSUME NEW s \in 0..MaxSecond, record'[s] # NoRecord
                   PROVE /\ record'[s].event = "INTERVENTION_APPLIED" =>
                              record'[s].actual = record'[s].intended
                         /\ twice' \/ backup'[s] = record'[s].prior
        BY DEF RecordsAreTrue
      <3>1. CASE s # stamp
        BY <1>t, <2>1, <3>1 DEF SettingsTypeOK, RecordsAreTrue
      <3>2. CASE s = stamp
        <4>1. record'[s] = made
          BY <1>t, <2>1, <3>2 DEF SettingsTypeOK
        <4>2. made.prior = existing
          OBVIOUS
        <4> QED
          BY <1>t, <2>1, <2>2, <3>2, <4>1, <4>2 DEF StampIsFresh
      <3> QED
        BY <3>1, <3>2
    <2> QED
      BY <1>t, <2>1, <2>3, <2>4 DEF SettingsInv, KeysAreSomewhere, HoldsTheKeys, StampIsFresh
  <1>9. CASE Abort
    <2>1. PICK left \in {backup[stamp]} \cup (IF act = "backup" THEN {Torn} ELSE {}) :
            backup' = [backup EXCEPT ![stamp] = left]
      BY <1>9 DEF Abort
    <2>2. /\ act # "idle"
          /\ act' = "idle" /\ want' = "none" /\ existing' = NoFile /\ stamp' = 0
          /\ UNCHANGED <<file, second, record, keys, overwritten, twice>>
      BY <1>9 DEF Abort, ApplyEnds
    <2>3. left \in Files /\ (act # "backup" => left = backup[stamp])
      BY <1>t, <1>f, <2>1 DEF SettingsTypeOK
    <2>4. SettingsTypeOK'
      BY <1>t, <1>f, <2>1, <2>2, <2>3 DEF SettingsTypeOK, Texts
    <2>5. \A s \in 0..MaxSecond : act # "backup" \/ s # stamp => backup'[s] = backup[s]
      BY <1>t, <2>1, <2>3 DEF SettingsTypeOK
    <2>6. KeysAreSomewhere'
      BY <1>t, <2>2, <2>5 DEF KeysAreSomewhere, HoldsTheKeys
    <2>7. RecordsAreTrue'
      BY <1>t, <2>2, <2>5 DEF RecordsAreTrue, StampIsFresh
    <2> QED
      BY <2>2, <2>4, <2>6, <2>7 DEF SettingsInv, HoldsTheKeys, StampIsFresh
  <1>10. CASE Edit
    <2>1. PICK v \in Values : file' = [val |-> v, keys |-> keys + 1]
      BY <1>10 DEF Edit
    <2>2. file' \in Files /\ file' # Torn /\ file'.keys = keys'
      BY <1>10, <1>t, <2>1 DEF Edit, SettingsTypeOK, Files, Texts, Torn
    <2>3. SettingsTypeOK'
      BY <1>10, <1>t, <2>2 DEF Edit, SettingsTypeOK
    <2> QED
      BY <1>10, <1>t, <2>2, <2>3 DEF Edit, SettingsInv, KeysAreSomewhere, HoldsTheKeys,
                                     StampIsFresh, RecordsAreTrue
  <1>11. CASE Tick
    BY <1>11, <1>t DEF Tick, SettingsInv, SettingsTypeOK, KeysAreSomewhere, HoldsTheKeys,
                       StampIsFresh, RecordsAreTrue
  <1> QED
    BY <1>1, <1>2, <1>3, <1>4, <1>5, <1>6, <1>7, <1>8, <1>9, <1>10, <1>11 DEF SettingsNext

\* apply may be killed after any system call and the owner of the file may write
\* it at any moment, as often as they like: their other keys are in the file or
\* in a backup, and the log claims only what was read back.
THEOREM SettingsAreNeverLost == SettingsSpec => []UserKeepsTheirs
  <1>1. SettingsInv => UserKeepsTheirs
    BY DEF SettingsInv, UserKeepsTheirs, KeysAreSomewhere, RecordsAreTrue
  <1> QED
    BY <1>1, SettingsInitInv, SettingsStepInv, PTL DEF SettingsSpec

-----------------------------------------------------------------------------
(* The bracket of a probe run. *)

\* The provider's count of what it cached is never below what was built: its
\* rounding is upwards, to whole blocks.
LEMMA RoundedUp ==
    ASSUME NEW n \in Nat, NEW b \in Nat \ {0}
    PROVE  /\ ((n + b - 1) \div b) * b \in Nat
           /\ ((n + b - 1) \div b) * b >= n
  <1> DEFINE q == (n + b - 1) \div b
             r == (n + b - 1) % b
  <1>1. n + b - 1 \in Nat
    OBVIOUS
  <1>2. q \in Nat /\ r \in 0..(b - 1) /\ n + b - 1 = q * b + r
    BY <1>1, Z3
  <1> HIDE DEF q, r
  <1>3. q * b \in Nat
    BY <1>2
  <1> QED
    BY <1>2, <1>3 DEF q

LEMMA SizesAreNumbers ==
    /\ Max(Blocks) \in Nat
    /\ \A n \in Sizes : n \in Nat
  <1>1. PICK b \in Blocks : \A c \in Blocks : b >= c
    BY SearchAssumption
  <1>2. Max(Blocks) \in Blocks
    BY <1>1 DEF Max
  <1>3. Max(Blocks) \in Nat
    BY <1>2, SearchAssumption
  <1> QED
    BY <1>3, SearchAssumption DEF Sizes

\* The bracket alone is not inductive: a size that was answered once may be
\* decided by its next answer, so the answers held so far must agree with the
\* floor as well.
AnswersAgree ==
    \A n \in Sizes : IF n >= floor THEN answers[n][1] = 0 ELSE answers[n][2] = 0

SearchInv ==
    /\ lo \in Int /\ hi \in Int /\ floor \in Nat /\ block \in Nat \ {0}
    /\ sent \in Nat /\ budget \in Nat /\ drifted \in BOOLEAN
    /\ answers \in [Sizes -> Nat \X Nat]
    /\ BracketHolds
    /\ ~drifted => AnswersAgree

LEMMA SearchInitInv == SearchInit => SearchInv
  <1> SUFFICES ASSUME SearchInit PROVE SearchInv
    OBVIOUS
  <1> USE SearchAssumption DEF SearchInit
  <1>1. answers \in [Sizes -> Nat \X Nat] /\ AnswersAgree
    BY DEF AnswersAgree
  <1>2. floor \in Nat /\ block \in Nat \ {0} /\ budget \in Nat
    OBVIOUS
  <1>3. BracketHolds
    BY <1>2 DEF BracketHolds
  <1>4. lo \in Int /\ hi \in Int /\ sent \in Nat
    OBVIOUS
  <1>5. drifted \in BOOLEAN
    BY Zenon
  <1> QED
    BY <1>1, <1>2, <1>3, <1>4, <1>5, Zenon DEF SearchInv

\* One answer of a provider that stands still moves an end of the bracket at
\* most up to its floor.
LEMMA RecordInv ==
    ASSUME SearchInv, NEW n \in Sizes, Record(n) PROVE SearchInv'
  <1> DEFINE wrote == n >= floor
             cached == IF wrote THEN ((n + block - 1) \div block) * block ELSE 0
             got == [answers[n] EXCEPT ![IF wrote THEN 2 ELSE 1] = @ + 1]
             split == got[1] > 0 /\ got[2] > 0
             decides == ~split /\ got[1] + got[2] >= Confirm
             bound == UpperBound(cached, n)
             newLo == IF decides /\ ~wrote /\ n > lo THEN n ELSE lo
             newHi == IF decides /\ wrote /\ bound < hi THEN bound ELSE hi
  <1>1. /\ sent < budget /\ sent' = sent + 1
        /\ answers' = [answers EXCEPT ![n] = got]
        /\ nonDeterministic' = split
        /\ lo' = newLo /\ hi' = newHi /\ contradicted' = (newLo >= newHi)
        /\ UNCHANGED <<floor, block, drifted, budget>>
    BY DEF Record, Probing, provider, config
  <1>2. n \in Nat /\ floor \in Nat /\ block \in Nat \ {0} /\ lo \in Int /\ hi \in Int
    BY SizesAreNumbers DEF SearchInv
  <1>3. wrote => cached \in Nat /\ cached >= n
    BY <1>2, RoundedUp
  <1>4. bound \in Nat /\ (wrote => bound >= floor)
    BY <1>2, <1>3 DEF UpperBound
  <1>5. answers[n] \in Nat \X Nat
    BY DEF SearchInv
  <1>6. /\ got \in Nat \X Nat
        /\ wrote => got[1] = answers[n][1]
        /\ ~wrote => got[2] = answers[n][2]
    <2>1. CASE wrote
      <3>1. got = [answers[n] EXCEPT ![2] = @ + 1]
        BY <2>1
      <3> QED
        BY <1>5, <2>1, <3>1
    <2>2. CASE ~wrote
      <3>1. got = [answers[n] EXCEPT ![1] = @ + 1]
        BY <2>2
      <3> QED
        BY <1>5, <2>2, <3>1
    <2> QED
      BY <2>1, <2>2
  <1> HIDE DEF cached, got, bound
  <1>7. newLo \in Int /\ newHi \in Int
    BY <1>2, <1>4
  <1>8. answers' \in [Sizes -> Nat \X Nat]
    BY <1>1, <1>6 DEF SearchInv
  <1>9. ASSUME ~drifted
        PROVE  /\ ~split /\ newLo < floor /\ floor <= newHi
               /\ AnswersAgree'
    <2>1. lo < floor /\ floor <= hi /\ AnswersAgree
      BY <1>9 DEF SearchInv, BracketHolds
    <2>2. IF wrote THEN got[1] = 0 ELSE got[2] = 0
      BY <1>6, <2>1 DEF AnswersAgree
    <2>3. ~split
      BY <1>6, <2>2
    <2>4. newLo < floor /\ floor <= newHi
      BY <1>2, <1>4, <2>1
    <2>5. AnswersAgree'
      <3> SUFFICES ASSUME NEW k \in Sizes
                   PROVE  IF k >= floor THEN answers'[k][1] = 0 ELSE answers'[k][2] = 0
        BY <1>1 DEF AnswersAgree, Sizes
      <3>1. CASE k = n
        <4>1. answers'[k] = got
          BY <1>1, <3>1 DEF SearchInv
        <4> QED
          BY <4>1, <2>2, <3>1
      <3>2. CASE k # n
        <4>1. answers'[k] = answers[k]
          BY <1>1, <3>2 DEF SearchInv
        <4> QED
          BY <4>1, <2>1 DEF AnswersAgree
      <3> QED
        BY <3>1, <3>2
    <2> QED
      BY <2>3, <2>4, <2>5
  <1>10. BracketHolds'
    <2>1. sent' <= budget'
      BY <1>1 DEF SearchInv
    <2>2. ASSUME ~drifted' PROVE lo' < floor' /\ floor' <= hi' /\ ~contradicted' /\ ~nonDeterministic'
      <3>1. ~split /\ newLo < floor /\ floor <= newHi
        BY <1>1, <1>9, <2>2
      <3>2. ~(newLo >= newHi)
        BY <1>2, <1>7, <3>1
      <3> QED
        BY <1>1, <3>1, <3>2
    <2> QED
      BY <2>1, <2>2 DEF BracketHolds
  <1>11. /\ lo' \in Int /\ hi' \in Int /\ floor' \in Nat /\ block' \in Nat \ {0}
         /\ sent' \in Nat /\ budget' \in Nat /\ drifted' \in BOOLEAN
    BY <1>1, <1>7 DEF SearchInv
  <1>12. answers' \in [Sizes -> Nat \X Nat] /\ (~drifted' => AnswersAgree')
    BY <1>1, <1>8, <1>9
  <1> QED
    BY <1>10, <1>11, <1>12 DEF SearchInv, Sizes

LEMMA SearchStepInv ==
    ASSUME SearchInv, [SearchNext]_searchVars PROVE SearchInv'
  <1> USE SearchAssumption
  <1>1. CASE UNCHANGED searchVars
    BY <1>1 DEF searchVars, SearchInv, BracketHolds, AnswersAgree, Sizes
  <1>2. CASE Finish
    BY <1>2 DEF Finish, config, provider, SearchInv, BracketHolds, AnswersAgree, Sizes
  <1>3. CASE Fail
    BY <1>3 DEF Fail, Probing, config, provider, flags, SearchInv, BracketHolds, AnswersAgree,
                Sizes
  <1>4. CASE Inconclusive
    BY <1>4 DEF Inconclusive, Probing, config, provider, flags, SearchInv, BracketHolds,
                AnswersAgree, Sizes
  <1>5. CASE Drift
    <2>1. /\ drifted' = TRUE /\ floor' \in (MinSize + 1)..MaxSize
          /\ UNCHANGED <<budget, lo, hi, sent, answers, block>>
      BY <1>5 DEF Drift, config
    <2>2. floor' \in Nat
      BY <2>1
    <2> QED
      BY <2>1, <2>2 DEF SearchInv, BracketHolds, Sizes
  <1>6. ASSUME NEW d \in Noise, Proposal + d \in Sizes, Record(Proposal + d) PROVE SearchInv'
    BY <1>6, RecordInv
  <1> QED
    BY <1>1, <1>2, <1>3, <1>4, <1>5, <1>6 DEF SearchNext

\* Whatever sizes the prior, the candidates, the dithering and the stepping off
\* make Next propose, whatever the provider's blocks and however far the prefix
\* that was built misses the size asked for: while the provider keeps its floor
\* the bracket contains it, the run is not reported as unstable, and Run pays
\* for no more requests than the budget.
THEOREM BracketAlwaysHolds == SearchSpec => []BracketHolds
  <1>1. SearchInv => BracketHolds
    BY DEF SearchInv
  <1> QED
    BY <1>1, SearchInitInv, SearchStepInv, PTL DEF SearchSpec

-----------------------------------------------------------------------------
(* The terminal interface.  A key is taken against a frame that may be stale  *)
(* by the time it acts, so the invariant says what is tied to the frame while *)
(* the loop waits, while a decision is written and while an enter is pending. *)

\* Between a paint and the next key, the screen's own keys are about the frame
\* that is on the terminal, and the overlay is up if the frame shows it.
FrameIsCurrent ==
    pc = "wait" =>
        /\ shown.key = onShow /\ shown.help = help
        /\ shown.under # Nil => ~help /\ onShow \in {"a", "c"}
        /\ ~help =>
             /\ local.of \in {Nil, onShow}
             /\ local.of = "a" /\ shown.open = Nil => shown.under = RowOf(local.ids, cursor)
             /\ local.of = "p" => shown.card = local.card
             /\ onShow = "a" /\ shown.under # Nil => local.of = "a" /\ shown.open = Nil
             /\ onShow = "c" /\ shown.under # Nil =>
                  tasks # <<>> /\ shown.under = RowOf(tasks, cursor)

\* A decision that is being written is about the frame it was taken on, which
\* cannot be painted over meanwhile, and changes a file that holds every other.
MarkIsOfFrame ==
    pc = "marking" =>
        /\ shown.key = "a" /\ ~shown.help /\ (shown.open = Nil => mark.id = shown.under)
        /\ mark.image \in AdviceFiles /\ (~excused => mark.image.dec = decided)
        /\ mark.key \in {"a", "x"}

\* An enter on a marked row is answered by the next paint, unless that paint has
\* no list to open it from; then the list has changed.
EnterIsPending ==
    opened /\ entered.under # Nil =>
        /\ entered.key \in {"a", "c"}
        /\ entered.key = "c" => /\ pc = "paint" /\ ~help /\ onShow = "c"
                                /\ tasks # <<>> /\ entered.under = RowOf(tasks, cursor)
        /\ entered.key = "a" =>
              \/ local.ids = <<>>
              \/ /\ pc = "paint" /\ ~help /\ onShow = "a"
                 /\ entered.under = RowOf(local.ids, cursor)

\* The decisions are in the file, or in what the run is about to write, or both.
DecisionsAreHeld ==
    ~excused =>
        /\ run # "writing" => advice.dec = decided
        /\ run # "idle" => held.dec = decided
        /\ run = "writing" => advice = NoAdvice

OwnKeys == local.of \in {Nil, "a", "p"} /\ local.ids \in Rankings \cup {<<>>}

ScreenInv ==
    /\ ScreenTypeOK /\ FrameAnswered
    /\ FrameIsCurrent /\ MarkIsOfFrame /\ EnterIsPending /\ DecisionsAreHeld /\ OwnKeys

LEMMA ScreenFacts ==
  /\ \A r \in Rankings \cup {<<>>} : Len(r) \in Nat
  /\ Len(Tasks) \in Nat /\ Len(<<>>) = 0
  /\ NoAdvice \in AdviceFiles
  /\ Nil \notin Screens
<1>1. Len(<<>>) = 0 /\ \A r \in Rankings : Len(r) \in Nat
  BY ScreenAssumption
<1>2. Len(Tasks) \in Nat
  BY ScreenAssumption
<1>3. NoAdvice \in AdviceFiles
  BY DEF NoAdvice, AdviceFiles, Undecided, Decisions
<1>4. Nil \notin Screens
  BY DEF Nil, Screens
<1> QED BY <1>1, <1>2, <1>3, <1>4

LEMMA ScreenInitInv == ScreenInit => ScreenInv
<1> SUFFICES ASSUME ScreenInit PROVE ScreenInv
  OBVIOUS
<1>1. advice \in AdviceFiles /\ advice.dec = Undecided /\ Undecided \in [Findings -> Decisions]
  <2>1. Undecided \in [Findings -> Decisions]
    BY DEF Undecided, Decisions
  <2>2. CASE advice = NoAdvice
    BY <2>1, <2>2, ScreenFacts DEF NoAdvice
  <2>3. ASSUME NEW r \in Rankings, advice = [ids |-> r, dec |-> Undecided]
        PROVE  advice \in AdviceFiles /\ advice.dec = Undecided
    BY <2>1, <2>3 DEF AdviceFiles
  <2> QED BY <2>1, <2>2, <2>3 DEF ScreenInit
<1>2. ScreenTypeOK
  BY <1>1, ScreenFacts, ScreenAssumption DEF ScreenInit, ScreenTypeOK
<1>3. FrameAnswered
  BY DEF ScreenInit, FrameAnswered, DidNothing, NoOpen, NoFrame, Frame, Nil
<1>4. FrameIsCurrent /\ MarkIsOfFrame /\ EnterIsPending
  BY DEF ScreenInit, FrameIsCurrent, MarkIsOfFrame, EnterIsPending
<1>5. DecisionsAreHeld
  BY <1>1 DEF ScreenInit, DecisionsAreHeld
<1>6. OwnKeys
  BY DEF ScreenInit, OwnKeys, NoKeys
<1> QED BY <1>2, <1>3, <1>4, <1>5, <1>6 DEF ScreenInv

\* A key that the loop takes: the cursor stays on a row, the screen changes, or
\* enter is noted against the frame; a paint follows.
LEMMA LoopKeyStep ==
  ASSUME ScreenInv, NEW k \in Keys, LoopKey(k),
         pc \in {"wait", "marking"}, pc = "marking" => k \in {"a", "x"},
         UNCHANGED <<rows, local, uiVars, diskVars, shown, did, decided, excused>>,
         lastOpen' \in {NoOpen, lastOpen}
  PROVE  ScreenInv'
<1> USE DEF ScreenInv
<1>0. UNCHANGED <<tasks, whyOf, detail, ui, advice, run, held, adviseRuns>>
  BY DEF uiVars, diskVars
<1>1. pc' = "paint" /\ mark' = NoMark
  BY DEF LoopKey
<1>2. cursor' \in Nat /\ (cursor' < rows \/ cursor' = 0)
  <2>1. CASE Move(k)
    <3>2. k \in {"j", "k", "H", "G"} /\ cursor' = Moved(k, rows)
      BY <2>1 DEF Move, Moves
    <3>3. rows \in Nat /\ rows > 0 /\ cursor \in Nat /\ (cursor < rows \/ cursor = 0)
      BY <2>1 DEF Move, Moves, ScreenTypeOK
    <3> QED BY <3>2, <3>3 DEF Moved
  <2>2. CASE ~ Move(k)
    <3>1. cursor' = cursor
      BY <2>2 DEF LoopKey, ToggleHelp, Escape, Enter, Shortcut
    <3> QED BY <3>1 DEF ScreenTypeOK
  <2> QED BY <2>1, <2>2
<1>3. onShow' \in Screens /\ before' \in (Screens \cup {Nil}) \ {onShow'}
      /\ help' \in BOOLEAN /\ opened' \in BOOLEAN
  <2>1. onShow \in Screens /\ before \in (Screens \cup {Nil}) \ {onShow}
        /\ help \in BOOLEAN /\ opened \in BOOLEAN
    BY DEF ScreenTypeOK
  <2>2. CASE k \in Screens /\ Shortcut(k)
    BY <2>1, <2>2 DEF Shortcut
  <2>3. CASE Escape
    BY <2>1, <2>3 DEF Escape
  <2>4. CASE ~ (k \in Screens /\ Shortcut(k)) /\ ~ Escape
    BY <2>1, <2>4 DEF LoopKey, Move, ToggleHelp, Enter
  <2> QED BY <2>2, <2>3, <2>4
<1>4. ScreenTypeOK'
  BY <1>0, <1>1, <1>2, <1>3 DEF ScreenTypeOK
<1>5. FrameAnswered'
  BY DEF FrameAnswered, NoOpen, NoFrame, Frame
<1>6. FrameIsCurrent' /\ MarkIsOfFrame'
  BY <1>1 DEF FrameIsCurrent, MarkIsOfFrame
<1>7. EnterIsPending'
  <2>1. CASE k = "enter" /\ Enter
    <3>1. /\ opened' = TRUE /\ entered' = shown
          /\ UNCHANGED <<onShow, before, help, cursor>> /\ pc = "wait"
      BY <2>1 DEF Enter
    <3>2. SUFFICES ASSUME shown.under # Nil
                   PROVE  /\ shown.key \in {"a", "c"}
                          /\ shown.key = "c" => /\ ~help /\ onShow = "c"
                                                /\ tasks # <<>> /\ shown.under = RowOf(tasks, cursor)
                          /\ shown.key = "a" => \/ local.ids = <<>>
                                                \/ /\ ~help /\ onShow = "a"
                                                   /\ shown.under = RowOf(local.ids, cursor)
      BY <1>0, <1>1, <3>1 DEF EnterIsPending, RowOf
    <3> QED BY <3>1, <3>2 DEF FrameIsCurrent
  <2>2. CASE ~ (k = "enter" /\ Enter)
    <3>1. UNCHANGED <<opened, entered>>
      BY <2>2 DEF LoopKey, Move, ToggleHelp, Escape, Shortcut
    <3>2. opened /\ entered.under # Nil => entered.key = "a" /\ local.ids = <<>>
      BY DEF EnterIsPending
    <3> QED BY <3>1, <3>2 DEF EnterIsPending
  <2> QED BY <2>1, <2>2
<1>8. DecisionsAreHeld' /\ OwnKeys'
  BY <1>0 DEF DecisionsAreHeld, OwnKeys
<1> QED BY <1>4, <1>5, <1>6, <1>7, <1>8

LEMMA PressStep == ASSUME ScreenInv, NEW k \in Keys, Press(k) PROVE ScreenInv'
<1> USE DEF ScreenInv
<1>1. /\ pc = "wait" /\ lastOpen' = NoOpen
      /\ UNCHANGED <<rows, local, tasks, whyOf, diskVars, shown, decided, excused>>
  BY DEF Press
<1>2. CASE ~ IsOwn(k)
  <2>1. LoopKey(k) /\ UNCHANGED <<detail, ui, did>>
    BY <1>2 DEF Press
  <2>2. UNCHANGED uiVars
    BY <1>1, <2>1 DEF uiVars
  <2> QED BY <1>1, <2>1, <2>2, LoopKeyStep
<1>3. CASE IsOwn(k)
  <2>1. /\ CloseDetail(k) \/ BeginMark(k) \/ ShareKey(k)
        /\ UNCHANGED <<onShow, before, help, cursor, opened, entered, choices>>
    BY <1>3 DEF Press
  <2>2. ~ help
    BY <1>3 DEF IsOwn
  <2>3. UNCHANGED <<advice, run, held, adviseRuns>>
    BY <1>1 DEF diskVars
  <2>4. pc' \in {"paint", "marking"}
    BY <2>1 DEF CloseDetail, BeginMark, ShareKey
  <2>5. ScreenTypeOK'
    BY <1>1, <2>1, <2>3, <2>4 DEF ScreenTypeOK
  <2>6. FrameIsCurrent'
    BY <2>4 DEF FrameIsCurrent
  <2>7. EnterIsPending'
    <3>1. opened /\ entered.under # Nil => entered.key = "a" /\ local.ids = <<>>
      BY <1>1 DEF EnterIsPending
    <3> QED BY <1>1, <2>1, <3>1 DEF EnterIsPending
  <2>8. DecisionsAreHeld' /\ OwnKeys'
    BY <1>1, <2>3 DEF DecisionsAreHeld, OwnKeys
  <2>9. lastOpen'.on.under = Nil
    BY <1>1 DEF NoOpen, NoFrame, Frame
  <2>10. CASE BeginMark(k)
    <3>1. /\ local.of = "a" /\ k \in {"a", "x"} /\ Marked \in Elements(advice.ids)
          /\ mark' = [key |-> k, id |-> Marked, image |-> advice]
          /\ UNCHANGED <<detail, ui, did>>
      BY <2>10 DEF BeginMark, CanMark
    <3>2. shown.key = "a" /\ ~ shown.help /\ (shown.open = Nil => Marked = shown.under)
      BY <1>1, <2>2, <3>1 DEF FrameIsCurrent, Marked, Nil
    <3>3. ~ excused => advice.dec = decided
      <4>1. advice # NoAdvice
        BY <3>1 DEF NoAdvice, Elements
      <4> QED BY <4>1 DEF DecisionsAreHeld
    <3>4. MarkIsOfFrame'
      BY <1>1, <2>1, <3>1, <3>2, <3>3 DEF MarkIsOfFrame, ScreenTypeOK
    <3>5. FrameAnswered'
      BY <2>9, <3>1 DEF FrameAnswered
    <3> QED BY <2>5, <2>6, <2>7, <2>8, <3>4, <3>5
  <2>11. CASE CloseDetail(k)
    <3>1. pc' = "paint" /\ did' = did
      BY <2>11 DEF CloseDetail
    <3>2. FrameAnswered'
      BY <2>9, <3>1 DEF FrameAnswered
    <3>3. MarkIsOfFrame'
      BY <3>1 DEF MarkIsOfFrame
    <3> QED BY <2>5, <2>6, <2>7, <2>8, <3>2, <3>3
  <2>12. CASE ShareKey(k)
    <3>1. pc' = "paint" /\ local.of = "p"
          /\ did' \in {did, [what |-> "card", item |-> local.card, on |-> shown]}
      BY <2>12 DEF ShareKey, Previewed
    <3>2. shown.key = "p" /\ shown.card = local.card
      BY <1>1, <2>2, <3>1 DEF FrameIsCurrent, Nil
    <3>3. FrameAnswered'
      BY <2>9, <3>1, <3>2 DEF FrameAnswered
    <3>4. MarkIsOfFrame'
      BY <3>1 DEF MarkIsOfFrame
    <3> QED BY <2>5, <2>6, <2>7, <2>8, <3>3, <3>4
  <2> QED BY <2>1, <2>10, <2>11, <2>12
<1> QED BY <1>2, <1>3

LEMMA MarkStep ==
  ASSUME ScreenInv, Quit \/ MarkWritten \/ MarkFails PROVE ScreenInv'
<1> USE DEF ScreenInv
<1>1. CASE Quit
  <2>1. /\ pc = "wait" /\ pc' = "gone"
        /\ UNCHANGED <<onShow, before, help, cursor, rows, opened, local, mark, tasks, advice, run,
                       held, shown, entered, did, lastOpen, decided, excused>>
    BY <1>1 DEF Quit, uiVars, diskVars, ghostVars
  <2>2. ScreenTypeOK' /\ OwnKeys'
    BY <2>1 DEF ScreenTypeOK, OwnKeys
  <2>3. FrameAnswered' /\ DecisionsAreHeld'
    BY <2>1 DEF FrameAnswered, DecisionsAreHeld
  <2>4. FrameIsCurrent' /\ MarkIsOfFrame' /\ EnterIsPending'
    BY <2>1 DEF FrameIsCurrent, MarkIsOfFrame, EnterIsPending
  <2> QED BY <2>2, <2>3, <2>4
<1>2. CASE MarkFails
  <2>1. /\ pc = "marking" /\ LoopKey(mark.key)
        /\ UNCHANGED <<rows, local, pressed, uiVars, diskVars, shown, did, lastOpen, decided, excused>>
    BY <1>2 DEF MarkFails
  <2>2. mark.key \in {"a", "x"} /\ mark.key \in Keys
    BY <2>1 DEF MarkIsOfFrame, Keys, Screens
  <2> QED BY <2>1, <2>2, LoopKeyStep
<1>3. CASE MarkWritten
  <2>1. /\ pc = "marking" /\ pc' = "paint"
        /\ advice' = [mark.image EXCEPT !.dec[mark.id] = Decision(mark.key)]
        /\ decided' = [decided EXCEPT ![mark.id] = Decision(mark.key)]
        /\ excused' = (excused \/ run # "idle")
        /\ did' = [what |-> "mark", item |-> mark.id, on |-> shown]
        /\ UNCHANGED <<onShow, before, help, cursor, rows, opened, local, tasks, run, held, shown,
                       entered, lastOpen>>
    BY <1>3 DEF MarkWritten, uiVars
  <2>2. Decision(mark.key) \in Decisions
    BY DEF Decision, Decisions
  <2>3. mark.image \in AdviceFiles
    BY <2>1 DEF MarkIsOfFrame
  <2>4. mark.image.ids \in Rankings \cup {<<>>} /\ mark.image.dec \in [Findings -> Decisions]
    BY <2>3 DEF AdviceFiles
  <2>5. advice' = [ids |-> mark.image.ids,
                   dec |-> [mark.image.dec EXCEPT ![mark.id] = Decision(mark.key)]]
    BY <2>1, <2>3 DEF AdviceFiles
  <2>6. [mark.image.dec EXCEPT ![mark.id] = Decision(mark.key)] \in [Findings -> Decisions]
    BY <2>2, <2>4
  <2>7. advice' \in AdviceFiles
    BY <2>4, <2>5, <2>6 DEF AdviceFiles
  <2>8. decided' \in [Findings -> Decisions] /\ excused' \in BOOLEAN
    BY <2>1, <2>2 DEF ScreenTypeOK
  <2>9. ScreenTypeOK'
    BY <2>1, <2>7, <2>8 DEF ScreenTypeOK
  <2>10. FrameAnswered'
    BY <2>1 DEF FrameAnswered, MarkIsOfFrame
  <2>11. DecisionsAreHeld'
    <3>1. SUFFICES ASSUME ~ excused, run = "idle" PROVE advice'.dec = decided'
      BY <2>1 DEF DecisionsAreHeld
    <3>2. mark.image.dec = decided
      BY <2>1, <3>1 DEF MarkIsOfFrame
    <3> QED BY <2>1, <2>5, <3>2
  <2>12. FrameIsCurrent' /\ MarkIsOfFrame' /\ EnterIsPending' /\ OwnKeys'
    BY <2>1 DEF FrameIsCurrent, MarkIsOfFrame, EnterIsPending, OwnKeys
  <2> QED BY <2>9, <2>10, <2>11, <2>12
<1> QED BY <1>1, <1>2, <1>3

\* The other goroutine, and the other process.
LEMMA OutsideStep ==
  ASSUME ScreenInv,
         CountLands \/ AdviseReads \/ AdviseTruncates \/ AdviseFills \/ AdviseDies
  PROVE  ScreenInv'
<1> USE DEF ScreenInv
<1>1. /\ UNCHANGED loopVars
      /\ UNCHANGED <<shown, entered, did, lastOpen, choices, decided>>
  BY DEF CountLands, AdviseReads, AdviseTruncates, AdviseFills, AdviseDies, ghostVars
<1>2. UNCHANGED <<pc, onShow, before, help, cursor, rows, opened, local, mark, pressed>>
  BY <1>1 DEF loopVars
<1>3. FrameAnswered' /\ OwnKeys'
  BY <1>1, <1>2 DEF FrameAnswered, OwnKeys
<1>4. CASE CountLands
  <2>1. tasks = <<>> /\ tasks' = Tasks /\ UNCHANGED <<advice, run, held, excused>>
    BY <1>4 DEF CountLands, diskVars, ghostVars
  <2>2. ScreenTypeOK'
    BY <1>1, <1>2, <2>1 DEF ScreenTypeOK
  <2>3. FrameIsCurrent' /\ EnterIsPending'
    BY <1>1, <1>2, <2>1 DEF FrameIsCurrent, EnterIsPending, RowOf
  <2>4. MarkIsOfFrame' /\ DecisionsAreHeld'
    BY <1>1, <1>2, <2>1 DEF MarkIsOfFrame, DecisionsAreHeld
  <2> QED BY <1>3, <2>2, <2>3, <2>4
<1>5. CASE ~ CountLands
  <2>1. tasks' = tasks /\ (excused' = excused \/ excused' = TRUE)
    BY <1>5 DEF AdviseReads, AdviseTruncates, AdviseFills, AdviseDies, uiVars, ghostVars, ScreenTypeOK
  <2>2. FrameIsCurrent' /\ EnterIsPending'
    BY <1>1, <1>2, <2>1 DEF FrameIsCurrent, EnterIsPending, RowOf
  <2>3. MarkIsOfFrame'
    BY <1>1, <1>2, <2>1 DEF MarkIsOfFrame
  <2>4. advice' \in AdviceFiles /\ held' \in AdviceFiles
    <3>1. CASE AdviseReads
      <4>1. PICK r \in Rankings \cup {<<>>} : held' = [ids |-> r, dec |-> Carried]
        BY <3>1 DEF AdviseReads
      <4>2. Carried \in [Findings -> Decisions] /\ advice' = advice
        BY <3>1 DEF AdviseReads, Carried, ScreenTypeOK, AdviceFiles
      <4> QED BY <4>1, <4>2 DEF AdviceFiles, ScreenTypeOK
    <3>2. CASE AdviseTruncates \/ AdviseFills \/ AdviseDies
      BY <3>2, ScreenFacts DEF AdviseTruncates, AdviseFills, AdviseDies, ScreenTypeOK
    <3> QED BY <1>5, <3>1, <3>2
  <2>5. run' \in {"idle", "computed", "writing"} /\ excused' \in BOOLEAN
    BY <1>5, <2>1 DEF AdviseReads, AdviseTruncates, AdviseFills, AdviseDies, ScreenTypeOK
  <2>6. ScreenTypeOK'
    BY <1>1, <1>2, <2>1, <2>4, <2>5 DEF ScreenTypeOK
  <2>7. DecisionsAreHeld'
    <3>1. CASE AdviseReads
      <4>1. run = "idle" /\ run' = "computed" /\ held'.dec = advice.dec
            /\ UNCHANGED <<advice, excused>>
        BY <3>1 DEF AdviseReads, Carried, ghostVars
      <4> QED BY <1>1, <4>1 DEF DecisionsAreHeld
    <3>2. CASE AdviseTruncates
      BY <1>1, <3>2 DEF AdviseTruncates, DecisionsAreHeld, ghostVars
    <3>3. CASE AdviseFills
      BY <1>1, <3>3 DEF AdviseFills, DecisionsAreHeld, ghostVars
    <3>4. CASE AdviseDies
      BY <1>1, <3>4 DEF AdviseDies, DecisionsAreHeld, ScreenTypeOK
    <3> QED BY <1>5, <3>1, <3>2, <3>3, <3>4
  <2> QED BY <1>3, <2>2, <2>3, <2>6, <2>7
<1> QED BY <1>4, <1>5

\* SetRows leaves the cursor on a row, if there is one.
LEMMA SetRowsFits ==
  ASSUME NEW n \in Nat, cursor \in Nat, SetRows(n)
  PROVE  /\ rows' = n /\ cursor' \in Nat /\ (cursor' < n \/ cursor' = 0)
         /\ cursor < n => cursor' = cursor
BY DEF SetRows

LEMMA PaintStep ==
  ASSUME ScreenInv,
         PaintHelp \/ PaintPlain \/ PaintCost \/ PaintAdvice \/ PaintComputed \/ PaintShare
  PROVE  ScreenInv'
<1> USE DEF ScreenInv
<1>1. /\ pc \in {"wait", "paint"} /\ pc' = "wait" /\ did' = DidNothing
      /\ UNCHANGED <<help, tasks, advice, run, held, decided, excused>>
  BY DEF PaintHelp, PaintPlain, PaintCost, PaintAdvice, PaintComputed, PaintShare, Painting,
         uiVars, diskVars
<1>2. MarkIsOfFrame' /\ DecisionsAreHeld' /\ did'.what = Nil
  BY <1>1 DEF MarkIsOfFrame, DecisionsAreHeld, DidNothing
<1>3. cursor \in Nat /\ rows \in Nat /\ Len(tasks) \in Nat /\ Len(advice.ids) \in Nat
      /\ advice.ids \in Rankings \cup {<<>>}
  <2>1. advice.ids \in Rankings \cup {<<>>}
    BY DEF ScreenTypeOK, AdviceFiles
  <2>2. tasks \in {<<>>, Tasks} /\ cursor \in Nat /\ rows \in Nat
    BY DEF ScreenTypeOK
  <2> QED BY <2>1, <2>2, ScreenFacts
<1>4. ASSUME onShow' \in Screens, before' \in (Screens \cup {Nil}) \ {onShow'}, opened' \in BOOLEAN,
             rows' \in Nat, cursor' \in Nat, cursor' < rows' \/ cursor' = 0
      PROVE  ScreenTypeOK'
  BY <1>1, <1>4 DEF ScreenTypeOK
<1>5. onShow \in Screens /\ before \in (Screens \cup {Nil}) \ {onShow} /\ opened \in BOOLEAN
      /\ (cursor < rows \/ cursor = 0) /\ help \in BOOLEAN
  BY DEF ScreenTypeOK
<1>6. CASE PaintHelp
  <2>1. /\ help /\ shown' = [NoFrame EXCEPT !.key = onShow, !.help = TRUE]
        /\ UNCHANGED <<onShow, before, cursor, rows, opened, local, entered, lastOpen>>
    BY <1>6 DEF PaintHelp
  <2>2. shown'.key = onShow /\ shown'.help = TRUE /\ shown'.under = Nil
    BY <2>1 DEF NoFrame, Frame
  <2>3. ScreenTypeOK'
    BY <1>3, <1>4, <1>5, <2>1
  <2>4. FrameIsCurrent'
    BY <1>1, <2>1, <2>2 DEF FrameIsCurrent, ScreenTypeOK
  <2>5. EnterIsPending' /\ OwnKeys'
    BY <1>1, <2>1 DEF EnterIsPending, OwnKeys
  <2>6. FrameAnswered'
    BY <1>2, <2>1 DEF FrameAnswered, Nil
  <2> QED BY <1>2, <2>3, <2>4, <2>5, <2>6
<1>7. CASE PaintPlain \/ PaintComputed \/ PaintShare
  <2>1. /\ ~help /\ onShow # "c" /\ shown'.key = onShow /\ shown'.help = FALSE /\ shown'.under = Nil
        /\ UNCHANGED <<onShow, before, opened, entered, lastOpen>>
    BY <1>7 DEF PaintPlain, PaintComputed, PaintShare, Frame
  <2>2. PICK n \in Nat : SetRows(n)
    <3>1. CASE PaintComputed
      BY <3>1, ScreenFacts DEF PaintComputed
    <3>2. CASE PaintPlain \/ PaintShare
      BY <3>2 DEF PaintPlain, PaintShare
    <3> QED BY <1>7, <3>1, <3>2
  <2>3. rows' \in Nat /\ cursor' \in Nat /\ (cursor' < rows' \/ cursor' = 0)
    BY <1>3, <2>2, SetRowsFits
  <2>4. /\ local'.ids = <<>> /\ local'.of \in {Nil, "p"}
        /\ local'.of = "p" => onShow = "p" /\ shown'.card = local'.card
    <3>1. CASE PaintShare
      <4>1. /\ onShow = "p" /\ local' = [NoKeys EXCEPT !.of = "p", !.card = CardOf]
            /\ shown' = Frame("p", Nil, Nil, CardOf)
        BY <3>1 DEF PaintShare
      <4>2. local'.of = "p" /\ local'.ids = <<>> /\ local'.card = CardOf
        BY <4>1 DEF NoKeys
      <4>3. shown'.card = CardOf
        BY <4>1 DEF Frame
      <4> QED BY <4>1, <4>2, <4>3
    <3>2. CASE PaintPlain \/ PaintComputed
      <4>1. local' = NoKeys
        BY <3>2 DEF PaintPlain, PaintComputed, ClearLocal
      <4> QED BY <4>1 DEF NoKeys, Nil
    <3> QED BY <1>7, <3>1, <3>2
  <2>5. ScreenTypeOK'
    BY <1>4, <1>5, <2>1, <2>3
  <2>6. FrameIsCurrent'
    BY <1>1, <1>5, <2>1, <2>4 DEF FrameIsCurrent, Nil
  <2>7. EnterIsPending' /\ OwnKeys'
    BY <1>1, <2>1, <2>4 DEF EnterIsPending, OwnKeys
  <2>8. FrameAnswered'
    BY <1>2, <2>1 DEF FrameAnswered, Nil
  <2> QED BY <1>2, <2>5, <2>6, <2>7, <2>8
<1>8. CASE PaintCost
  <2> DEFINE n == Len(tasks)
             clamped == IF cursor >= n THEN (IF n = 0 THEN 0 ELSE n - 1) ELSE cursor
             t == RowOf(tasks, clamped)
  <2>1. ~help /\ onShow = "c" /\ local' = NoKeys /\ opened' = FALSE /\ entered' = NoFrame
    BY <1>8 DEF PaintCost, ClearLocal
  <2>2. EnterIsPending' /\ OwnKeys' /\ local'.of = Nil
    BY <2>1 DEF EnterIsPending, OwnKeys, NoKeys
  <2>3. CASE opened /\ t \in Openable
    <3>1. /\ onShow' = "w" /\ before' = "c" /\ rows' = 0 /\ cursor' = 0
          /\ shown' = Frame("w", Nil, t, Nil)
          /\ lastOpen' = [screen |-> "c", item |-> t, on |-> entered, moved |-> FALSE]
      BY <1>8, <2>3 DEF PaintCost
    <3>2. ScreenTypeOK'
      BY <1>4, <2>1, <3>1 DEF Screens
    <3>3. FrameIsCurrent'
      <4>1. shown'.key = "w" /\ shown'.help = FALSE /\ shown'.under = Nil
        BY <3>1 DEF Frame
      <4> QED BY <1>1, <1>5, <2>1, <2>2, <3>1, <4>1 DEF FrameIsCurrent, Nil
    <3>4. entered.key = "c" /\ entered.under # Nil => t = entered.under
      <4> SUFFICES ASSUME entered.key = "c", entered.under # Nil PROVE t = entered.under
        OBVIOUS
      <4>1. entered.under = RowOf(tasks, cursor)
        BY <2>3 DEF EnterIsPending
      <4>2. cursor < n
        BY <4>1, <1>3 DEF RowOf
      <4>3. clamped = cursor
        BY <1>3, <4>2
      <4> QED BY <4>1, <4>3
    <3>5. FrameAnswered'
      BY <1>2, <3>1, <3>4 DEF FrameAnswered, Nil
    <3> QED BY <1>2, <2>2, <3>2, <3>3, <3>5
  <2>4. CASE ~ (opened /\ t \in Openable)
    <3>1. /\ SetRows(n) /\ shown' = Frame("c", RowOf(tasks, cursor), Nil, Nil)
          /\ UNCHANGED <<onShow, before, lastOpen>>
      BY <1>8, <2>4 DEF PaintCost
    <3>2. /\ rows' = n /\ cursor' \in Nat /\ (cursor' < n \/ cursor' = 0)
          /\ cursor < n => cursor' = cursor
      BY <1>3, <3>1, SetRowsFits
    <3>3. ScreenTypeOK'
      BY <1>3, <1>4, <1>5, <2>1, <3>1, <3>2
    <3>4. RowOf(tasks, cursor) # Nil => cursor < n /\ tasks # <<>>
      BY <1>3, ScreenFacts DEF RowOf
    <3>5. FrameIsCurrent'
      <4>1. shown'.key = "c" /\ shown'.help = FALSE /\ shown'.under = RowOf(tasks, cursor)
        BY <3>1 DEF Frame
      <4>2. shown'.under # Nil => tasks' # <<>> /\ shown'.under = RowOf(tasks, cursor)'
        BY <1>1, <3>2, <3>4, <4>1 DEF RowOf
      <4> QED BY <1>1, <1>5, <2>1, <2>2, <3>1, <4>1, <4>2 DEF FrameIsCurrent, Nil
    <3>6. FrameAnswered'
      BY <1>2, <3>1 DEF FrameAnswered, Nil
    <3> QED BY <1>2, <2>2, <3>3, <3>5, <3>6
  <2> QED BY <2>3, <2>4
<1>9. CASE PaintAdvice
  <2> DEFINE chosen == IF opened THEN RowOf(advice.ids, cursor) ELSE Nil
             open == IF chosen # Nil THEN chosen ELSE detail
             n == IF open # Nil THEN 0 ELSE Len(advice.ids)
  <2>1. /\ ~help /\ onShow = "a" /\ advice.ids # <<>> /\ SetRows(n)
        /\ shown' = Frame("a", IF open = Nil THEN advice.ids[cursor' + 1] ELSE Nil, open, Nil)
        /\ lastOpen' = IF chosen = Nil THEN lastOpen
                       ELSE [screen |-> "a", item |-> chosen, on |-> entered,
                             moved |-> local.ids # advice.ids]
        /\ opened' = FALSE /\ entered' = NoFrame
        /\ local' = [NoKeys EXCEPT !.of = "a", !.ids = advice.ids]
        /\ UNCHANGED <<onShow, before>>
    BY <1>9 DEF PaintAdvice
  <2> HIDE DEF open
  <2>2. /\ n \in Nat /\ rows' = n /\ cursor' \in Nat /\ (cursor' < n \/ cursor' = 0)
    BY <1>3, <2>1, SetRowsFits
  <2>3. ScreenTypeOK'
    BY <1>4, <1>5, <2>1, <2>2
  <2>4. local'.of = "a" /\ local'.ids = advice.ids
    BY <2>1 DEF NoKeys
  <2>5. EnterIsPending' /\ OwnKeys'
    BY <1>3, <2>1, <2>4 DEF EnterIsPending, OwnKeys
  <2>6. open = Nil => cursor' < Len(advice.ids)
    <3>1. Len(advice.ids) # 0
      BY <1>3, <2>1, ScreenAssumption
    <3> QED BY <1>3, <2>2, <3>1
  <2>7. FrameIsCurrent'
    <3>1. /\ shown'.key = "a" /\ shown'.help = FALSE /\ shown'.open = open
          /\ shown'.under = IF open = Nil THEN advice.ids[cursor' + 1] ELSE Nil
      BY <2>1 DEF Frame
    <3>2. open = Nil => shown'.under = RowOf(local.ids, cursor)'
      BY <2>4, <2>6, <3>1 DEF RowOf
    <3> QED BY <1>1, <1>5, <2>1, <2>4, <3>1, <3>2 DEF FrameIsCurrent, Nil
  <2>8. FrameAnswered'
    <3>1. CASE chosen = Nil
      BY <1>2, <2>1, <3>1 DEF FrameAnswered, Nil
    <3>2. CASE chosen # Nil
      <4>1. ASSUME entered.key = "a", entered.under # Nil, local.ids = advice.ids
            PROVE  chosen = entered.under
        BY <2>1, <3>2, <4>1 DEF EnterIsPending
      <4>2. lastOpen' = [screen |-> "a", item |-> chosen, on |-> entered,
                         moved |-> local.ids # advice.ids]
        BY <2>1, <3>2
      <4> QED BY <1>2, <4>1, <4>2 DEF FrameAnswered, Nil
    <3> QED BY <3>1, <3>2
  <2> QED BY <1>2, <2>3, <2>5, <2>7, <2>8
<1> QED BY <1>6, <1>7, <1>8, <1>9

\* A key of the terminal interface answers the frame the reader was looking at,
\* whatever the count and `replay advise` did since it was painted, and what the
\* reader decided about a finding outlives the keystroke (press, adviseKeys,
\* markAdvice, suggestForReader).
THEOREM KeysAnswerTheFrame == ScreenSpec => []ScreenIsTrue
<1>1. ScreenInit => ScreenInv
  BY ScreenInitInv
<1>2. ScreenInv /\ [ScreenNext]_screenVars => ScreenInv'
  <2> SUFFICES ASSUME ScreenInv, [ScreenNext]_screenVars PROVE ScreenInv'
    OBVIOUS
  <2>1. CASE ScreenNext
    BY <2>1, PressStep, MarkStep, PaintStep, OutsideStep DEF ScreenNext
  <2>2. CASE UNCHANGED screenVars
    <3>1. UNCHANGED <<loopVars, uiVars, diskVars, ghostVars>>
      BY <2>2 DEF screenVars
    <3>2. UNCHANGED <<pc, onShow, before, help, cursor, rows, opened, local, mark, tasks, advice,
                      run, held, shown, entered, did, lastOpen, decided, excused>>
      BY <3>1 DEF loopVars, uiVars, diskVars, ghostVars
    <3>3. ScreenTypeOK' /\ FrameAnswered' /\ OwnKeys'
      BY <3>2 DEF ScreenInv, ScreenTypeOK, FrameAnswered, OwnKeys
    <3>4. FrameIsCurrent' /\ MarkIsOfFrame' /\ EnterIsPending' /\ DecisionsAreHeld'
      BY <3>2 DEF ScreenInv, FrameIsCurrent, MarkIsOfFrame, EnterIsPending, DecisionsAreHeld, RowOf
    <3> QED BY <3>3, <3>4 DEF ScreenInv
  <2> QED BY <2>1, <2>2
<1>3. ScreenInv => ScreenIsTrue
  BY DEF ScreenInv, ScreenIsTrue, DecisionsKept, DecisionsAreHeld
<1> QED BY <1>1, <1>2, <1>3, PTL DEF ScreenSpec

-----------------------------------------------------------------------------
(***************************************************************************)
(* The series of readings.  The bracket of a run says something of the     *)
(* floors that answered it, at its lower end and at its upper end, or is   *)
(* still the range it was given; that outlives the run in its reading.     *)
(* Two readings of one instrument whose brackets are disjoint were then    *)
(* answered by different floors.                                           *)
(***************************************************************************)

Bracketed(above, atMost, saw, range, method) ==
    /\ above = range[1] \/ \E f \in saw : above < f + Bias[method]
    /\ atMost = range[2] \/ \E f \in saw : f + Bias[method] <= atMost

\* What holds of a run under way, and of one that has ended.
RunHolds(j) ==
    /\ Bracketed(j.lo, j.hi, j.saw, j.range, j.method)
    /\ j.allowed > 0 => j.sent <= j.allowed

ReadingHolds(r) ==
    /\ Bracketed(r.above, r.atMost, r.saw, r.range, r.method)
    /\ r.outcome = "clean" <=> r.told = "floor"

\* The second request of an experiment finds the first one's entry exactly if it
\* asks under the same key, unless the entry was lost between the two.
ExperimentHolds(j) ==
    /\ Len(j.used) <= 3
    /\ Len(j.used) = 0 => j.cache = {} /\ ~j.lost
    /\ Len(j.used) = 1 =>
         j.cache \subseteq {"base"} /\ (j.used[1].wrote /\ ~j.lost => "base" \in j.cache)
    /\ Len(j.used) >= 2 =>
         /\ keyed => ~j.used[2].read
         /\ ~keyed /\ j.used[1].wrote /\ ~j.lost => j.used[2].read

JobHolds(j) ==
    /\ j.at \in {"probing", "ended"} => RunHolds(j)
    /\ j.at = "stamped" => ReadingHolds(j.reading)
    /\ j.at = "varying" => ExperimentHolds(j)

Jobs == {Nobody} \cup Search \cup Experiment \cup Stamped

SeriesInv ==
    /\ SeriesTypeOK
    /\ \A p \in Proc : JobHolds(job[p])
    /\ \A i \in Readings : ReadingHolds(series[i])

\* A command is what its place says.
LEMMA JobIs ==
    ASSUME NEW j \in Jobs
    PROVE  /\ j.at \in {"probing", "ended"} => j \in Search
           /\ j.at = "varying" => j \in Experiment
           /\ j.at = "stamped" => j \in Stamped
  BY DEF Jobs, Nobody, Search, Experiment, Stamped

LEMMA SeriesInitInv == SeriesInit => SeriesInv
  <1> SUFFICES ASSUME SeriesInit PROVE SeriesInv
    OBVIOUS
  <1>1. SeriesTypeOK
    BY DEF SeriesInit, SeriesTypeOK, Nobody
  <1>2. \A p \in Proc : JobHolds(job[p])
    BY DEF SeriesInit, JobHolds, Nobody
  <1>3. Readings = {}
    BY DEF SeriesInit, Readings
  <1> QED BY <1>1, <1>2, <1>3 DEF SeriesInv

\* One command takes a step of its own and leaves the file and the provider
\* alone.
LEMMA JobStep ==
    ASSUME SeriesInv, NEW p \in Proc, NEW j \in Jobs, becomes(p, j),
           UNCHANGED <<series, outside>>, JobHolds(j)
    PROVE  SeriesInv'
  <1>1. UNCHANGED <<series, instrument, now, minimum, keyed, moves>>
    BY DEF outside
  <1>2. job' \in [Proc -> Jobs] /\ job'[p] = j /\ \A q \in Proc \ {p} : job'[q] = job[q]
    BY DEF becomes, SeriesInv, SeriesTypeOK, Jobs
  <1>3. SeriesTypeOK'
    BY <1>1, <1>2 DEF SeriesInv, SeriesTypeOK, Jobs
  <1>4. \A q \in Proc : JobHolds(job[q])'
    BY <1>1, <1>2 DEF SeriesInv, JobHolds, RunHolds, ReadingHolds, ExperimentHolds, Bracketed
  <1>5. \A i \in Readings' : ReadingHolds(series'[i])
    BY <1>1 DEF SeriesInv, Readings
  <1> QED BY <1>1, <1>3, <1>4, <1>5 DEF SeriesInv, ReadingHolds, Bracketed

\* What is known of a command that searches.
LEMMA JobTyped ==
    ASSUME SeriesInv, NEW p \in Proc PROVE job[p] \in Jobs /\ JobHolds(job[p])
  BY DEF SeriesInv, SeriesTypeOK, Jobs

LEMMA RunTyped ==
    ASSUME SeriesInv, NEW p \in Proc, is(p, "probing") \/ is(p, "ended")
    PROVE  job[p] \in Search /\ RunHolds(job[p])
  <1>1. job[p] \in Jobs /\ JobHolds(job[p])
    BY JobTyped
  <1>2. job[p].at \in {"probing", "ended"}
    BY DEF is
  <1>3. job[p] \in Search
    BY <1>1, <1>2, JobIs
  <1> QED BY <1>1, <1>2, <1>3 DEF JobHolds

\* The budget is looked at before every request.
LEMMA Affordable ==
    ASSUME SeriesInv, NEW p \in Proc, MayProbe(p)
    PROVE  /\ job[p] \in Search /\ RunHolds(job[p]) /\ job[p].at = "probing"
           /\ job[p].sent \in Nat /\ job[p].allowed \in Nat
           /\ job[p].allowed > 0 => job[p].sent + 1 <= job[p].allowed
  <1>1. is(p, "probing")
    BY DEF MayProbe
  <1>2. job[p] \in Search /\ RunHolds(job[p])
    BY <1>1, RunTyped
  <1>3. job[p].sent \in Nat /\ job[p].allowed \in Nat
    BY <1>2, SeriesAssumption DEF Search
  <1>4. ~StoppedEarly(job[p]) /\ ~Crossed(job[p]) /\ ~job[p].stalled /\ ~Resolved(job[p])
    BY DEF MayProbe, Asks
  <1>5. job[p].allowed > 0 => ~(job[p].sent >= job[p].allowed)
    BY <1>4 DEF StoppedEarly
  <1> QED BY <1>1, <1>2, <1>3, <1>5 DEF is

\* A bound that an answer moves is one the floor that answered confirms.
LEMMA BoundsMove ==
    ASSUME NEW below \in Int, NEW above \in Int, NEW saw, NEW range, NEW method,
           NEW f \in Int, Bias[method] \in Int, NEW n \in Int,
           Bracketed(below, above, saw, range, method)
    PROVE  Bracketed(IF ~(n >= f + Bias[method]) /\ n > below THEN n ELSE below,
                     IF n >= f + Bias[method] /\ n < above THEN n ELSE above,
                     saw \cup {f}, range, method)
  <1> DEFINE newLo == IF ~(n >= f + Bias[method]) /\ n > below THEN n ELSE below
             newHi == IF n >= f + Bias[method] /\ n < above THEN n ELSE above
  <1>1. newLo = range[1] \/ \E g \in saw \cup {f} : newLo < g + Bias[method]
    <2>1. CASE newLo = below
      BY <2>1 DEF Bracketed
    <2>2. CASE newLo # below
      BY <2>2
    <2> QED BY <2>1, <2>2
  <1>2. newHi = range[2] \/ \E g \in saw \cup {f} : g + Bias[method] <= newHi
    <2>1. CASE newHi = above
      BY <2>1 DEF Bracketed
    <2>2. CASE newHi # above
      BY <2>2
    <2> QED BY <2>1, <2>2
  <1> QED BY <1>1, <1>2 DEF Bracketed

LEMMA ProbeStep ==
    ASSUME SeriesInv, NEW p \in Proc, MayProbe(p), NEW s \in Served, NEW n \in Int,
           probe(p, s, n), UNCHANGED <<series, outside>>
    PROVE  SeriesInv'
  <1> DEFINE j == job[p]
             f == minimum[j.model][s]
             wrote == n >= reads(j, f)
             newLo == IF ~wrote /\ n > j.lo THEN n ELSE j.lo
             newHi == IF wrote /\ n < j.hi THEN n ELSE j.hi
             st == newLo < newHi /\ newLo = j.lo /\ newHi = j.hi
             k == [j EXCEPT !.at = "probing", !.sent = j.sent + 1, !.decided = j.decided + 1,
                            !.seen = j.seen \cup {s}, !.saw = j.saw \cup {f},
                            !.lo = newLo, !.hi = newHi, !.stalled = st, !.early = j.early]
  <1>1. /\ j \in Search /\ RunHolds(j) /\ j.at = "probing" /\ j.sent \in Nat
        /\ j.allowed > 0 => j.sent + 1 <= j.allowed
    BY Affordable
  <1>2. /\ j.model \in Model /\ j.method \in Method /\ j.lo \in Int /\ j.hi \in Int
        /\ j.decided \in Nat /\ j.seen \in SUBSET Served /\ j.saw \in SUBSET Floors
        /\ j.early \in BOOLEAN
    BY <1>1 DEF Search
  <1>3. f \in Floors
    BY <1>2 DEF SeriesInv, SeriesTypeOK
  <1>4. f \in Int /\ Bias[j.method] \in Int
    <2> HIDE DEF f
    <2>1. Floors \subseteq Int /\ Bias \in [Method -> Int]
      BY SeriesAssumption
    <2> QED BY <1>2, <1>3, <2>1
  <1>5. newLo \in Int /\ newHi \in Int /\ st \in BOOLEAN
    BY <1>2
  <1>6. Bracketed(newLo, newHi, j.saw \cup {f}, j.range, j.method)
    <2>1. Bracketed(j.lo, j.hi, j.saw, j.range, j.method)
      BY <1>1 DEF RunHolds
    <2> QED BY <1>2, <1>4, <2>1, BoundsMove DEF reads
  <1>7. becomes(p, k)
    <2>1. [j EXCEPT !.sent = @ + 1, !.decided = @ + 1, !.seen = @ \cup {s},
                    !.saw = @ \cup {f}, !.lo = newLo, !.hi = newHi, !.stalled = st] = k
      <3> HIDE DEF f, newLo, newHi, st
      <3> QED BY <1>1 DEF Search
    <2> QED BY <2>1 DEF probe
  <1>8. /\ k \in Search
        /\ k.at = "probing" /\ k.sent = j.sent + 1 /\ k.lo = newLo /\ k.hi = newHi
        /\ k.saw = j.saw \cup {f}
        /\ k.allowed = j.allowed /\ k.range = j.range /\ k.method = j.method
    <2> HIDE DEF newLo, newHi, st, f
    <2>1. /\ j.sent + 1 \in Nat /\ j.decided + 1 \in Nat
          /\ j.seen \cup {s} \in SUBSET Served /\ j.saw \cup {f} \in SUBSET Floors
          /\ "probing" \in {"probing", "ended"}
      BY <1>1, <1>2, <1>3
    <2> HIDE DEF j
    <2> QED BY <1>1, <1>2, <1>5, <2>1 DEF Search
  <1> HIDE DEF k, newLo, newHi, st, f
  <1>9. JobHolds(k)
    BY <1>1, <1>6, <1>8 DEF JobHolds, RunHolds
  <1> QED BY <1>7, <1>8, <1>9, JobStep DEF Jobs

\* What the other steps of a run share: the bracket and what was seen of the floor
\* stay as they are.
LEMMA RunKept ==
    ASSUME NEW j \in Search, RunHolds(j), NEW a \in {"probing", "ended"}, NEW n \in Nat,
           NEW seen \in SUBSET Served, NEW e \in BOOLEAN, j.allowed > 0 => n <= j.allowed
    PROVE  LET k == [j EXCEPT !.at = a, !.sent = n, !.seen = seen, !.early = e]
           IN  k \in Search /\ JobHolds(k)
  <1> DEFINE k == [j EXCEPT !.at = a, !.sent = n, !.seen = seen, !.early = e]
  <1>1. k \in Search
    BY DEF Search
  <1>2. /\ k.at = a /\ k.sent = n /\ k.lo = j.lo /\ k.hi = j.hi /\ k.saw = j.saw
        /\ k.allowed = j.allowed /\ k.range = j.range /\ k.method = j.method
    BY DEF Search
  <1> HIDE DEF k
  <1>3. JobHolds(k)
    BY <1>2 DEF JobHolds, RunHolds
  <1> QED BY <1>1, <1>3 DEF k

LEMMA RunStep ==
    ASSUME SeriesInv, NEW p \in Proc,
           Probe(p) \/ ProbeRead(p) \/ ProbeFails(p) \/ RunEnds(p)
    PROVE  SeriesInv'
  <1> DEFINE j == job[p]
  <1>1. CASE Probe(p)
    <2>1. PICK s \in Served, size \in (job[p].lo + 1)..(job[p].hi - 1) :
            \E n \in sizedFiller(size) : probe(p, s, n)
      BY <1>1 DEF Probe
    <2>2. MayProbe(p) /\ UNCHANGED <<series, outside>>
      BY <1>1 DEF Probe
    <2>3. job[p].lo \in Int /\ job[p].hi \in Int
      BY <2>2, Affordable DEF Search
    <2>4. PICK n \in sizedFiller(size) : probe(p, s, n)
      BY <2>1
    <2>5. n \in Int
      BY <2>1, <2>3, <2>4, SeriesAssumption DEF sizedFiller
    <2> QED BY <2>2, <2>4, <2>5, ProbeStep
  <1>2. CASE ProbeRead(p)
    <2>1. MayProbe(p) /\ UNCHANGED <<series, outside>>
      BY <1>2 DEF ProbeRead
    <2>2. PICK s \in Served : becomes(p, [j EXCEPT !.sent = @ + 1, !.seen = @ \cup {s}])
      BY <1>2 DEF ProbeRead
    <2> DEFINE k == [j EXCEPT !.at = "probing", !.sent = j.sent + 1, !.seen = j.seen \cup {s},
                              !.early = j.early]
    <2>3. /\ j \in Search /\ RunHolds(j) /\ j.at = "probing" /\ j.sent + 1 \in Nat
          /\ j.allowed > 0 => j.sent + 1 <= j.allowed
      BY <2>1, Affordable
    <2>4. j.seen \cup {s} \in SUBSET Served /\ j.early \in BOOLEAN
      BY <2>3 DEF Search
    <2>5. [j EXCEPT !.sent = @ + 1, !.seen = @ \cup {s}] = k
      BY <2>3 DEF Search
    <2>6. k \in Search /\ JobHolds(k)
      BY <2>3, <2>4, RunKept
    <2>7. becomes(p, k)
      BY <2>2, <2>5
    <2> HIDE DEF k
    <2> QED BY <2>1, <2>6, <2>7, JobStep DEF Jobs
  <1>3. CASE ProbeFails(p)
    <2>1. MayProbe(p) /\ UNCHANGED <<series, outside>>
      BY <1>3 DEF ProbeFails
    <2> DEFINE k == [j EXCEPT !.at = "ended", !.sent = j.sent + 1, !.seen = j.seen,
                              !.early = j.early]
    <2>3. /\ j \in Search /\ RunHolds(j) /\ j.at = "probing" /\ j.sent + 1 \in Nat
          /\ j.allowed > 0 => j.sent + 1 <= j.allowed
      BY <2>1, Affordable
    <2>4. j.seen \in SUBSET Served /\ j.early \in BOOLEAN
      BY <2>3 DEF Search
    <2>5. [j EXCEPT !.sent = @ + 1, !.at = "ended"] = k
      BY <2>3 DEF Search
    <2>6. k \in Search /\ JobHolds(k)
      BY <2>3, <2>4, RunKept
    <2>7. becomes(p, k)
      BY <1>3, <2>5 DEF ProbeFails
    <2> HIDE DEF k
    <2> QED BY <2>1, <2>6, <2>7, JobStep DEF Jobs
  <1>4. CASE RunEnds(p)
    <2>1. is(p, "probing") /\ UNCHANGED <<series, outside>>
      BY <1>4 DEF RunEnds
    <2> DEFINE e == StoppedEarly(j)
               k == [j EXCEPT !.at = "ended", !.sent = j.sent, !.seen = j.seen, !.early = e]
    <2>3. j \in Search /\ RunHolds(j)
      BY <2>1, RunTyped
    <2>4. j.seen \in SUBSET Served /\ j.sent \in Nat /\ (j.allowed > 0 => j.sent <= j.allowed)
      BY <2>3 DEF Search, RunHolds
    <2>5. e \in BOOLEAN
      BY DEF StoppedEarly
    <2>6. [j EXCEPT !.at = "ended", !.early = e] = k
      <3> HIDE DEF e
      <3> QED BY <2>3 DEF Search
    <2>7. becomes(p, k)
      BY <1>4, <2>6 DEF RunEnds
    <2> HIDE DEF e
    <2>8. k \in Search /\ JobHolds(k)
      BY <2>3, <2>4, <2>5, RunKept
    <2> HIDE DEF k
    <2> QED BY <2>1, <2>7, <2>8, JobStep DEF Jobs
  <1> QED BY <1>1, <1>2, <1>3, <1>4

\* The record of a run keeps what the run established, and calls it clean
\* exactly where the terminal stated it without reservation.
LEMMA StampStep ==
    ASSUME SeriesInv, NEW p \in Proc, Stamp(p) PROVE SeriesInv'
  <1> DEFINE j == job[p]
             r == [line |-> "reading", takenAt |-> now, method |-> j.method, model |-> j.model,
                   above |-> j.lo, atMost |-> j.hi, outcome |-> Outcome(j), saw |-> j.saw,
                   range |-> j.range, told |-> Told(j)]
  <1>1. j \in Search /\ RunHolds(j)
    BY RunTyped DEF Stamp
  <1>2. Outcome(j) \in Outcomes /\ Told(j) \in {"nothing", "qualified", "floor"}
    BY DEF Outcome, Told, Outcomes
  <1>3. Outcome(j) = "clean" <=> Told(j) = "floor"
    BY DEF Outcome, Told
  <1>4. r \in Reading
    BY <1>1, <1>2 DEF Reading, Search, SeriesInv, SeriesTypeOK
  <1>5. ReadingHolds(r)
    BY <1>1, <1>3 DEF ReadingHolds, RunHolds
  <1>6. [at |-> "stamped", reading |-> r] \in Jobs
    BY <1>4 DEF Jobs, Stamped
  <1>7. JobHolds([at |-> "stamped", reading |-> r])
    BY <1>5 DEF JobHolds
  <1>8. CASE leaves(p)
    <2>1. Nobody \in Jobs /\ JobHolds(Nobody)
      BY DEF Jobs, JobHolds, Nobody
    <2> QED BY <1>8, <2>1, JobStep DEF leaves, Stamp
  <1>9. CASE becomes(p, [at |-> "stamped", reading |-> r])
    BY <1>6, <1>7, <1>9, JobStep DEF Stamp
  <1> QED BY <1>8, <1>9 DEF Stamp

\* A line that is written whole is the reading of its run; one that is cut short,
\* or written on such a line, is none.
LEMMA LineStep ==
    ASSUME SeriesInv, NEW p \in Proc, NEW l, leaves(p), UNCHANGED outside,
           series' = Append(WholeLines, l),
           l \in {CutShort, Glued} \/ (l \in Reading /\ ReadingHolds(l))
    PROVE  SeriesInv'
  <1>1. UNCHANGED <<instrument, now, minimum, keyed, moves>>
    BY DEF outside
  <1>2. series \in Seq({CutShort, Glued} \cup Reading)
    BY DEF SeriesInv, SeriesTypeOK
  <1>3. WholeLines \in Seq({CutShort, Glued} \cup Reading) /\ Len(WholeLines) <= Len(series)
        /\ \A i \in 1..Len(WholeLines) : WholeLines[i] = series[i]
    <2>1. CASE Unfinished
      <3>1. series # <<>> /\ Len(series) \in Nat /\ Len(series) # 0
        BY <1>2, <2>1 DEF Unfinished
      <3>2. WholeLines = SubSeq(series, 1, Len(series) - 1)
        BY <2>1 DEF WholeLines
      <3> QED BY <1>2, <3>1, <3>2
    <2>2. CASE ~Unfinished
      BY <1>2, <2>2 DEF WholeLines
    <2> QED BY <2>1, <2>2
  <1>4. series' \in Seq({CutShort, Glued} \cup Reading)
    BY <1>3
  <1>5. /\ DOMAIN series' = 1..(Len(WholeLines) + 1)
        /\ series'[Len(WholeLines) + 1] = l
        /\ \A i \in 1..Len(WholeLines) : i \in DOMAIN series /\ series'[i] = series[i]
    BY <1>2, <1>3
  <1>6. Nobody \in Jobs /\ JobHolds(Nobody)
    BY DEF Jobs, JobHolds, Nobody
  <1>7. job' \in [Proc -> Jobs] /\ job'[p] = Nobody /\ \A q \in Proc \ {p} : job'[q] = job[q]
    BY <1>6 DEF leaves, becomes, SeriesInv, SeriesTypeOK, Jobs
  <1>8. SeriesTypeOK'
    BY <1>1, <1>4, <1>7 DEF SeriesInv, SeriesTypeOK, Jobs
  <1>9. \A q \in Proc : JobHolds(job[q])'
    BY <1>1, <1>6, <1>7
       DEF SeriesInv, JobHolds, RunHolds, ReadingHolds, ExperimentHolds, Bracketed
  <1>10. \A i \in Readings' : ReadingHolds(series'[i])
    <2> SUFFICES ASSUME NEW i \in DOMAIN series', series'[i].line = "reading"
                 PROVE  ReadingHolds(series'[i])
      BY DEF Readings
    <2>1. CASE i = Len(WholeLines) + 1
      BY <1>5, <2>1 DEF CutShort, Glued
    <2>2. CASE i # Len(WholeLines) + 1
      <3>1. i \in 1..Len(WholeLines)
        BY <1>3, <1>5, <2>2
      <3>2. i \in Readings /\ series'[i] = series[i]
        BY <1>5, <3>1 DEF Readings
      <3> QED BY <3>2 DEF SeriesInv
    <2> QED BY <2>1, <2>2
  <1> QED BY <1>8, <1>9, <1>10 DEF SeriesInv, ReadingHolds, Bracketed

LEMMA AppendStep ==
    ASSUME SeriesInv, NEW p \in Proc, AppendReading(p) \/ AppendCut(p) PROVE SeriesInv'
  <1>1. CASE AppendReading(p)
    <2>1. job[p] \in Jobs /\ JobHolds(job[p]) /\ job[p].at = "stamped"
      BY <1>1, JobTyped DEF AppendReading, is
    <2>2. job[p].reading \in Reading /\ ReadingHolds(job[p].reading)
      BY <2>1, JobIs DEF JobHolds, Stamped
    <2> DEFINE l == IF Unfinished THEN Glued ELSE job[p].reading
    <2>3. l \in {CutShort, Glued} \/ (l \in Reading /\ ReadingHolds(l))
      BY <2>2
    <2>4. leaves(p) /\ UNCHANGED outside /\ series' = Append(WholeLines, l)
      BY <1>1 DEF AppendReading
    <2> HIDE DEF l
    <2> QED BY <2>3, <2>4, LineStep
  <1>2. CASE AppendCut(p)
    BY <1>2, LineStep DEF AppendCut
  <1> QED BY <1>1, <1>2

\* A run starts from its range, and an experiment with nothing cached.
LEMMA StartStep ==
    ASSUME SeriesInv, NEW p \in Proc, NEW m \in Model,
           \/ StartVary(p, m)
           \/ \E r \in Ranges, n \in Allowances : StartRun(p, m, r, n)
    PROVE  SeriesInv'
  <1>1. CASE StartVary(p, m)
    <2> DEFINE k == [at |-> "varying", model |-> m, used |-> <<>>, cache |-> {}, lost |-> FALSE]
    <2>1. k \in Experiment
      BY DEF Experiment
    <2>2. JobHolds(k)
      BY DEF JobHolds, ExperimentHolds
    <2>3. becomes(p, k) /\ UNCHANGED <<series, outside>>
      BY <1>1 DEF StartVary
    <2> HIDE DEF k
    <2> QED BY <2>1, <2>2, <2>3, JobStep DEF Jobs
  <1>2. CASE \E r \in Ranges, n \in Allowances : StartRun(p, m, r, n)
    <2>1. PICK r \in Ranges, n \in Allowances : StartRun(p, m, r, n)
      BY <1>2
    <2> DEFINE k == [at |-> "probing", model |-> m, method |-> instrument, range |-> r,
                     allowed |-> n, sent |-> 0, lo |-> r[1], hi |-> r[2],
                     decided |-> 0, seen |-> {}, saw |-> {}, stalled |-> FALSE,
                     early |-> FALSE]
    <2>2. r[1] \in Int /\ r[2] \in Int /\ n \in Nat /\ instrument \in Method
      BY SeriesAssumption DEF SeriesInv, SeriesTypeOK
    <2>3. k \in Search
      BY <2>2 DEF Search
    <2>4. JobHolds(k)
      BY <2>2 DEF JobHolds, RunHolds, Bracketed
    <2>5. becomes(p, k) /\ UNCHANGED <<series, outside>>
      BY <2>1 DEF StartRun
    <2> HIDE DEF k
    <2> QED BY <2>3, <2>4, <2>5, JobStep DEF Jobs
  <1> QED BY <1>1, <1>2

\* The second request asks under the first one's key exactly if the term is not
\* part of it.
LEMMA SendStep ==
    ASSUME SeriesInv, NEW p \in Proc, SendVary(p) PROVE SeriesInv'
  <1> DEFINE j == job[p]
             key == KeyOf(Len(j.used) = 1)
             read == key \in j.cache
  <1>1. PICK s \in Served : sendVary(p, s)
    BY DEF SendVary
  <1> DEFINE wrote == ~read /\ VarySize >= minimum[j.model][s]
             u == [read |-> read, wrote |-> wrote]
             c == IF wrote THEN j.cache \cup {key} ELSE j.cache
             k == [j EXCEPT !.used = Append(j.used, u), !.cache = c]
  <1>2. is(p, "varying") /\ Len(j.used) < 3 /\ UNCHANGED <<series, outside>>
    BY DEF SendVary
  <1>3. j \in Experiment /\ ExperimentHolds(j)
    BY <1>2, JobTyped, JobIs DEF JobHolds, is
  <1>4. key \in {"base", "variant"}
    BY DEF KeyOf
  <1>5. u \in Usage /\ c \in SUBSET {"base", "variant"}
    BY <1>3, <1>4 DEF Usage, Experiment
  <1>6. j.used \in Seq(Usage) /\ Len(j.used) \in Nat
    BY <1>3 DEF Experiment
  <1>7. becomes(p, k)
    BY <1>1 DEF sendVary
  <1>8. keyed \in BOOLEAN
    BY DEF SeriesInv, SeriesTypeOK
  <1>9. /\ u.read = read /\ u.wrote = wrote
        /\ Len(j.used) = 1 => (keyed => key = "variant") /\ (~keyed => key = "base")
        /\ Len(j.used) # 1 => key = "base"
    BY <1>8 DEF KeyOf
  <1>10. /\ wrote => ~read /\ key \in c
         /\ c \subseteq j.cache \cup {key} /\ j.cache \subseteq c
    OBVIOUS
  <1>11. read <=> key \in j.cache
    OBVIOUS
  <1>12. /\ k \in Experiment /\ k.used = Append(j.used, u) /\ k.cache = c
         /\ k.lost = j.lost /\ k.at = "varying"
    <2> HIDE DEF u, c
    <2>1. Append(j.used, u) \in Seq(Usage)
      BY <1>5, <1>6
    <2> HIDE DEF j
    <2> QED BY <1>3, <1>5, <2>1 DEF Experiment
  <1>13. /\ Len(k.used) = Len(j.used) + 1 /\ k.used[Len(j.used) + 1] = u
         /\ \A i \in 1..Len(j.used) : k.used[i] = j.used[i]
    <2> HIDE DEF u, c, k, j
    <2> QED BY <1>5, <1>6, <1>12
  <1> HIDE DEF k, c, u, wrote, read, key, j
  <1>14. ExperimentHolds(k)
    <2>1. CASE Len(j.used) = 0
      BY <1>3, <1>9, <1>10, <1>12, <1>13, <2>1 DEF ExperimentHolds
    <2>2. CASE Len(j.used) = 1
      BY <1>3, <1>8, <1>9, <1>10, <1>11, <1>12, <1>13, <2>2 DEF ExperimentHolds
    <2>3. CASE Len(j.used) = 2
      BY <1>3, <1>9, <1>10, <1>12, <1>13, <2>3 DEF ExperimentHolds
    <2>4. \A n \in Nat : n < 3 => n = 0 \/ n = 1 \/ n = 2
      OBVIOUS
    <2>5. Len(j.used) = 0 \/ Len(j.used) = 1 \/ Len(j.used) = 2
      BY <1>2, <1>6, <2>4
    <2> QED BY <2>1, <2>2, <2>3, <2>5
  <1>15. JobHolds(k)
    BY <1>12, <1>14 DEF JobHolds
  <1> QED BY <1>2, <1>7, <1>12, <1>15, JobStep DEF Jobs

LEMMA EvictStep ==
    ASSUME SeriesInv, NEW p \in Proc, Evict(p) PROVE SeriesInv'
  <1> DEFINE j == job[p]
  <1>1. PICK e \in j.cache :
          becomes(p, [j EXCEPT !.cache = @ \ {e}, !.lost = @ \/ Len(j.used) = 1])
    BY DEF Evict
  <1> DEFINE c == j.cache \ {e}
             lost == j.lost \/ Len(j.used) = 1
             k == [j EXCEPT !.cache = c, !.lost = lost]
  <1>2. is(p, "varying") /\ UNCHANGED <<series, outside>>
    BY DEF Evict
  <1>3. j \in Experiment /\ ExperimentHolds(j)
    BY <1>2, JobTyped, JobIs DEF JobHolds, is
  <1>4. becomes(p, k)
    BY <1>1
  <1>5. c \in SUBSET {"base", "variant"} /\ lost \in BOOLEAN
    BY <1>3 DEF Experiment
  <1>6. c \subseteq j.cache /\ e \in j.cache /\ (lost <=> (j.lost \/ Len(j.used) = 1))
    OBVIOUS
  <1> HIDE DEF c, lost
  <1>7. /\ k \in Experiment /\ k.used = j.used /\ k.cache = c /\ k.lost = lost
        /\ k.at = "varying"
    BY <1>3, <1>5 DEF Experiment
  <1>8. Len(j.used) \in Nat
    BY <1>3 DEF Experiment
  <1> HIDE DEF k, j
  <1>9. ExperimentHolds(k)
    BY <1>3, <1>6, <1>7, <1>8 DEF ExperimentHolds
  <1>10. JobHolds(k)
    BY <1>7, <1>9 DEF JobHolds
  <1> QED BY <1>2, <1>4, <1>7, <1>10, JobStep DEF Jobs

LEMMA ProviderStep ==
    ASSUME SeriesInv, FloorMoves \/ Later \/ NewVersion \/ UNCHANGED seriesVars
    PROVE  SeriesInv'
  <1>1. UNCHANGED <<job, series, keyed>>
    BY DEF FloorMoves, Later, NewVersion, seriesVars
  <1>2. SeriesTypeOK'
    <2>1. CASE FloorMoves
      BY <2>1 DEF SeriesInv, SeriesTypeOK, FloorMoves
    <2>2. CASE Later
      BY <2>2 DEF SeriesInv, SeriesTypeOK, Later
    <2>3. CASE NewVersion
      BY <2>3 DEF SeriesInv, SeriesTypeOK, NewVersion
    <2>4. CASE UNCHANGED seriesVars
      BY <2>4 DEF SeriesInv, SeriesTypeOK, seriesVars
    <2> QED BY <2>1, <2>2, <2>3, <2>4
  <1>3. \A q \in Proc : JobHolds(job[q])'
    BY <1>1 DEF SeriesInv, JobHolds, RunHolds, ReadingHolds, ExperimentHolds, Bracketed
  <1>4. \A i \in Readings' : ReadingHolds(series'[i])
    BY <1>1 DEF SeriesInv, Readings
  <1> QED BY <1>2, <1>3, <1>4 DEF SeriesInv, ReadingHolds, Bracketed

LEMMA SeriesNextInv == SeriesInv /\ [SeriesNext]_seriesVars => SeriesInv'
  <1> SUFFICES ASSUME SeriesInv, [SeriesNext]_seriesVars PROVE SeriesInv'
    OBVIOUS
  <1>1. CASE \E p \in Proc : Command(p) \/ Evict(p)
    <2>1. PICK p \in Proc : Command(p) \/ Evict(p)
      BY <1>1
    <2>2. ASSUME leaves(p), UNCHANGED <<series, outside>> PROVE SeriesInv'
      <3>1. Nobody \in Jobs /\ JobHolds(Nobody)
        BY DEF Jobs, JobHolds, Nobody
      <3> QED BY <2>2, <3>1, JobStep DEF leaves
    <2>3. CASE \E m \in Model : AnswerFromSeries(p, m)
      BY <2>3, ProviderStep DEF AnswerFromSeries
    <2>4. CASE \E m \in Model : StartVary(p, m)
      BY <2>4, StartStep
    <2>5. CASE PlanOnly(p)
      BY <2>5, ProviderStep DEF PlanOnly
    <2>6. CASE \E m \in Model, r \in Ranges, n \in Allowances : StartRun(p, m, r, n)
      BY <2>6, StartStep
    <2>7. CASE Probe(p) \/ ProbeRead(p) \/ ProbeFails(p) \/ RunEnds(p)
      BY <2>7, RunStep
    <2>8. CASE Stamp(p)
      BY <2>8, StampStep
    <2>9. CASE AppendReading(p) \/ AppendCut(p)
      BY <2>9, AppendStep
    <2>10. CASE Killed(p)
      BY <2>2, <2>10 DEF Killed
    <2>11. CASE SendVary(p)
      BY <2>11, SendStep
    <2>12. CASE VaryEnds(p)
      BY <2>2, <2>12 DEF VaryEnds
    <2>13. CASE Evict(p)
      BY <2>13, EvictStep
    <2> QED BY <2>1, <2>3, <2>4, <2>5, <2>6, <2>7, <2>8, <2>9, <2>10, <2>11, <2>12, <2>13
            DEF Command
  <1>2. CASE FloorMoves \/ Later \/ NewVersion \/ UNCHANGED seriesVars
    BY <1>2, ProviderStep
  <1> QED BY <1>1, <1>2 DEF SeriesNext

\* Two measurements whose brackets are disjoint met two floors.
LEMMA Disjoint ==
    ASSUME NEW a \in Reading, NEW b \in Reading, ReadingHolds(a), ReadingHolds(b),
           a.method = b.method, disjoint(a, b), Measured(a), Measured(b)
    PROVE  \E f \in a.saw, g \in b.saw : f # g
  <1> DEFINE w == Bias[a.method]
  <1>1. /\ w \in Int /\ \A f \in a.saw \cup b.saw : f \in Int
        /\ a.above \in Int /\ a.atMost \in Int /\ b.above \in Int /\ b.atMost \in Int
    <2>1. Floors \subseteq Int /\ Bias \in [Method -> Int]
      BY SeriesAssumption
    <2> QED BY <2>1 DEF Reading
  <1>2. /\ \E f \in a.saw : a.above < f + w
        /\ \E f \in a.saw : f + w <= a.atMost
    <2> HIDE DEF w
    <2>1. \E f \in a.saw : a.range[1] < f + w /\ f + w <= a.range[2]
      BY DEF Measured, w
    <2>2. /\ a.above = a.range[1] \/ \E f \in a.saw : a.above < f + w
          /\ a.atMost = a.range[2] \/ \E f \in a.saw : f + w <= a.atMost
      BY DEF ReadingHolds, Bracketed, w
    <2> QED BY <2>1, <2>2
  <1>3. /\ \E f \in b.saw : b.above < f + w
        /\ \E f \in b.saw : f + w <= b.atMost
    <2> HIDE DEF w
    <2>1. \E f \in b.saw : b.range[1] < f + w /\ f + w <= b.range[2]
      BY DEF Measured, w
    <2>2. /\ b.above = b.range[1] \/ \E f \in b.saw : b.above < f + w
          /\ b.atMost = b.range[2] \/ \E f \in b.saw : f + w <= b.atMost
      BY DEF ReadingHolds, Bracketed, w
    <2> QED BY <2>1, <2>2
  <1> HIDE DEF w
  <1>4. CASE a.atMost <= b.above
    <2>1. PICK f \in a.saw : f + w <= a.atMost
      BY <1>2
    <2>2. PICK g \in b.saw : b.above < g + w
      BY <1>3
    <2>3. f # g
      BY <1>1, <1>4, <2>1, <2>2
    <2> QED BY <2>3
  <1>5. CASE b.atMost <= a.above
    <2>1. PICK f \in a.saw : a.above < f + w
      BY <1>2
    <2>2. PICK g \in b.saw : g + w <= b.atMost
      BY <1>3
    <2>3. f # g
      BY <1>1, <1>5, <2>1, <2>2
    <2> QED BY <2>3
  <1> QED BY <1>4, <1>5 DEF disjoint

LEMMA SeriesInvHolds == SeriesInv => SeriesIsTrue
  <1> SUFFICES ASSUME SeriesInv PROVE SeriesIsTrue
    OBVIOUS
  <1>1. \A i \in Readings : series[i] \in Reading /\ ReadingHolds(series[i])
    BY DEF SeriesInv, SeriesTypeOK, Readings, CutShort, Glued
  <1>2. ChangeIsReal
    <2> SUFFICES ASSUME NEW ij \in Changes, Measured(series[ij[1]]), Measured(series[ij[2]])
                 PROVE  \E f \in series[ij[1]].saw, g \in series[ij[2]].saw : f # g
      BY DEF ChangeIsReal
    <2>1. ij[1] \in Readings /\ ij[2] \in Readings
      BY DEF Changes, Comparable
    <2>2. series[ij[1]].method = series[ij[2]].method /\ disjoint(series[ij[1]], series[ij[2]])
      BY DEF Changes, sameMethod
    <2> QED BY <1>1, <2>1, <2>2, Disjoint
  <1>3. AsItWasTold
    BY <1>1 DEF AsItWasTold, ReadingHolds
  <1>4. SpentAsAgreed
    <2> SUFFICES ASSUME NEW p \in Proc
                 PROVE  /\ (is(p, "probing") \/ is(p, "ended")) /\ job[p].allowed > 0 =>
                              job[p].sent <= job[p].allowed
                        /\ is(p, "varying") => Len(job[p].used) <= 3
      BY DEF SpentAsAgreed
    <2> QED BY JobTyped DEF JobHolds, RunHolds, ExperimentHolds, is
  <1>5. VaryIsTrue
    <2> SUFFICES ASSUME NEW p \in Proc, is(p, "varying"), Len(job[p].used) = 3
                 PROVE  /\ Verdict(job[p].used) = "in the key" => keyed \/ job[p].lost
                        /\ Verdict(job[p].used) = "not in the key" /\ job[p].used[1].wrote
                             => ~keyed
      BY DEF VaryIsTrue
    <2>1. ExperimentHolds(job[p])
      BY JobTyped DEF JobHolds, is
    <2>2. /\ keyed => ~job[p].used[2].read
          /\ ~keyed /\ job[p].used[1].wrote /\ ~job[p].lost => job[p].used[2].read
      BY <2>1 DEF ExperimentHolds
    <2> QED BY <2>2 DEF Verdict
  <1> QED BY <1>2, <1>3, <1>4, <1>5 DEF SeriesIsTrue

\* For every number of commands, model and provider: a change that `replay probe`
\* reports between two measurements is a change of the floor, the series compares
\* what the terminal stated without reservation, no run sends more than was
\* confirmed, and the verdict of the experiment is true of the key.
THEOREM SeriesIsAlwaysTrue == SeriesSpec => []SeriesIsTrue
  <1>1. SeriesInit => SeriesInv
    BY SeriesInitInv
  <1>2. SeriesInv /\ [SeriesNext]_seriesVars => SeriesInv'
    BY SeriesNextInv
  <1>3. SeriesInv => SeriesIsTrue
    BY SeriesInvHolds
  <1> QED BY <1>1, <1>2, <1>3, PTL DEF SeriesSpec

-----------------------------------------------------------------------------
(* The entries of a sequence that are in a set. *)

LEMMA LeastNat ==
  ASSUME NEW S \in SUBSET Nat, S # {}
  PROVE  \E n \in S : \A k \in S : n <= k
<1>1. PICK n \in S : \A m \in S : ~(<<m, n>> \in OpToRel(<, Nat))
  BY NatLessThanWellFounded, WFMin
<1>2. ASSUME NEW k \in S PROVE n <= k
  <2> SUFFICES ASSUME ~(n <= k) PROVE FALSE
    OBVIOUS
  <2>1. k < n /\ k \in Nat /\ n \in Nat
    OBVIOUS
  <2>2. <<k, n>> \in OpToRel(<, Nat)
    BY <2>1, Zenon DEF OpToRel
  <2> QED BY <1>1, <2>2
<1> QED BY <1>2

IsFilter(s, S, n, f) ==
    f = [i \in 0..n |-> IF i = 0 THEN <<>>
                        ELSE IF s[i] \in S THEN Append(f[i - 1], s[i]) ELSE f[i - 1]]

LEMMA FilterExists ==
  ASSUME NEW s, NEW S, NEW N \in Nat PROVE \E f : IsFilter(s, S, N, f)
<1> DEFINE Bad == {n \in Nat : n <= N /\ ~ \E f : IsFilter(s, S, n, f)}
<1>2. CASE Bad = {}
  BY <1>2
<1>3. CASE Bad # {}
  <2>1. PICK n \in Bad : \A k \in Bad : n <= k
    BY <1>3, LeastNat
  <2>2. n # 0
    <3>1. IsFilter(s, S, 0, [i \in 0..0 |-> <<>>])
      BY DEF IsFilter
    <3> QED BY <3>1
  <2>3. n - 1 \in Nat /\ n - 1 \notin Bad /\ n - 1 <= N
    BY <2>1, <2>2
  <2>4. PICK f : IsFilter(s, S, n - 1, f)
    BY <2>3
  <2> DEFINE next == IF s[n] \in S THEN Append(f[n - 1], s[n]) ELSE f[n - 1]
             g == [i \in 0..n |-> IF i = n THEN next ELSE f[i]]
  <2>5. \A i \in 0..n : g[i] = IF i = 0 THEN <<>>
                        ELSE IF s[i] \in S THEN Append(g[i - 1], s[i]) ELSE g[i - 1]
    <3> SUFFICES ASSUME NEW i \in 0..n
                 PROVE  g[i] = IF i = 0 THEN <<>>
                        ELSE IF s[i] \in S THEN Append(g[i - 1], s[i]) ELSE g[i - 1]
      OBVIOUS
    <3>1. CASE i = n
      <4>1. i - 1 \in 0..n /\ i - 1 # n /\ n \in 0..n
        BY <2>2, <2>3, <3>1
      <4>2. g[i - 1] = f[n - 1] /\ g[i] = next
        BY <3>1, <4>1
      <4> QED BY <2>2, <3>1, <4>2
    <3>2. CASE i # n
      <4>1. i \in 0..(n - 1) /\ g[i] = f[i]
        BY <2>3, <3>2
      <4>2. f[i] = IF i = 0 THEN <<>>
                        ELSE IF s[i] \in S THEN Append(f[i - 1], s[i]) ELSE f[i - 1]
        BY <2>4, <4>1 DEF IsFilter
      <4>3. i # 0 => g[i - 1] = f[i - 1]
        BY <2>3, <4>1
      <4> QED BY <4>1, <4>2, <4>3
    <3> QED BY <3>1, <3>2
  <2>6. IsFilter(s, S, n, g)
    BY <2>5 DEF IsFilter
  <2> QED BY <2>6
<1> QED BY <1>2, <1>3

\* The filter of each prefix.
FilterOf(s, S) == CHOOSE f : IsFilter(s, S, Len(s), f)

LEMMA FilterIs ==
  ASSUME NEW s, NEW S, Len(s) \in Nat
  PROVE  /\ Only(s, S) = FilterOf(s, S)[Len(s)]
         /\ \A i \in 0..Len(s) : FilterOf(s, S)[i] =
              IF i = 0 THEN <<>>
              ELSE IF s[i] \in S THEN Append(FilterOf(s, S)[i - 1], s[i]) ELSE FilterOf(s, S)[i - 1]
<1> DEFINE f == FilterOf(s, S)
<1>1. IsFilter(s, S, Len(s), f)
  BY FilterExists, Zenon DEF FilterOf
<1>2. Only(s, S) = f[Len(s)]
  BY Zenon DEF Only, IsFilter, FilterOf
<1>3. \A i \in 0..Len(s) : f[i] =
              IF i = 0 THEN <<>>
              ELSE IF s[i] \in S THEN Append(f[i - 1], s[i]) ELSE f[i - 1]
  <2> HIDE DEF f
  <2> QED BY <1>1 DEF IsFilter
<1> QED BY <1>2, <1>3

\* Two sequences that agree on a prefix have the same filters there.
LEMMA FilterAgrees ==
  ASSUME NEW s, NEW t, NEW S, Len(s) \in Nat, Len(t) \in Nat, NEW n \in 0..Len(s), n <= Len(t),
         \A i \in 1..n : s[i] = t[i]
  PROVE  FilterOf(s, S)[n] = FilterOf(t, S)[n]
<1> DEFINE f == FilterOf(s, S)
           g == FilterOf(t, S)
           Bad == {i \in 0..n : f[i] # g[i]}
<1>1. /\ \A i \in 0..Len(s) : f[i] =
              IF i = 0 THEN <<>>
              ELSE IF s[i] \in S THEN Append(f[i - 1], s[i]) ELSE f[i - 1]
      /\ \A i \in 0..Len(t) : g[i] =
              IF i = 0 THEN <<>>
              ELSE IF t[i] \in S THEN Append(g[i - 1], t[i]) ELSE g[i - 1]
  BY FilterIs
<1> HIDE DEF f, g
<1> SUFFICES ASSUME Bad # {} PROVE FALSE
  BY DEF f, g
<1>0. Bad \in SUBSET Nat
  OBVIOUS
<1>2. PICK i \in Bad : \A k \in Bad : i <= k
  BY <1>0, LeastNat
<1>3. i # 0
  BY <1>1
<1>4. i - 1 \in 0..n /\ i - 1 \notin Bad /\ i \in 1..n
  BY <1>2, <1>3
<1>5. f[i - 1] = g[i - 1] /\ s[i] = t[i]
  BY <1>4
<1>6. i \in 0..Len(s) /\ i \in 0..Len(t)
  BY <1>4
<1> QED BY <1>1, <1>3, <1>5, <1>6

LEMMA OnlyEmpty == ASSUME NEW S PROVE Only(<<>>, S) = <<>>
<1>1. Len(<<>>) = 0 /\ Len(<<>>) \in Nat
  OBVIOUS
<1> QED BY <1>1, FilterIs

LEMMA OnlyAppend ==
  ASSUME NEW T, NEW s \in Seq(T), NEW x \in T, NEW S
  PROVE  Only(Append(s, x), S) = IF x \in S THEN Append(Only(s, S), x) ELSE Only(s, S)
<1> DEFINE t == Append(s, x)
           n == Len(s)
<1>1. /\ n \in Nat /\ Len(t) = n + 1 /\ t[n + 1] = x /\ \A i \in 1..n : s[i] = t[i]
  OBVIOUS
<1> HIDE DEF t
<1>2. FilterOf(s, S)[n] = FilterOf(t, S)[n]
  BY <1>1, FilterAgrees
<1>3. Only(s, S) = FilterOf(s, S)[n] /\ Only(t, S) = FilterOf(t, S)[n + 1]
  BY <1>1, FilterIs
<1>4. FilterOf(t, S)[n + 1] = IF t[n + 1] \in S THEN Append(FilterOf(t, S)[n], t[n + 1])
                              ELSE FilterOf(t, S)[n]
  <2>1. n + 1 \in 0..Len(t) /\ n + 1 # 0 /\ (n + 1) - 1 = n
    BY <1>1
  <2> QED BY <1>1, <2>1, FilterIs
<1> QED BY <1>1, <1>2, <1>3, <1>4 DEF t

LEMMA RangeAppend ==
  ASSUME NEW T, NEW s \in Seq(T), NEW x \in T
  PROVE  Range(Append(s, x)) = Range(s) \cup {x}
<1> DEFINE t == Append(s, x)
<1>1. /\ Len(s) \in Nat /\ DOMAIN s = 1..Len(s) /\ DOMAIN t = 1..(Len(s) + 1)
      /\ t[Len(s) + 1] = x /\ \A i \in 1..Len(s) : t[i] = s[i]
  OBVIOUS
<1> HIDE DEF t
<1>2. ASSUME NEW y \in Range(t) PROVE y \in Range(s) \cup {x}
  BY <1>1, <1>2 DEF Range
<1>3. ASSUME NEW y \in Range(s) \cup {x} PROVE y \in Range(t)
  <2>1. CASE y = x
    <3>1. Len(s) + 1 \in DOMAIN t
      BY <1>1
    <3> QED BY <1>1, <2>1, <3>1 DEF Range
  <2>2. CASE y \in Range(s)
    <3>1. PICK i \in 1..Len(s) : y = s[i]
      BY <1>1, <2>2 DEF Range
    <3>2. i \in DOMAIN t /\ t[i] = y
      BY <1>1, <3>1
    <3> QED BY <3>2 DEF Range
  <2> QED BY <1>3, <2>1, <2>2
<1> QED BY <1>2, <1>3 DEF t

LEMMA OnlyType ==
  ASSUME NEW T, NEW s \in Seq(T), NEW S
  PROVE  Only(s, S) \in Seq(T) /\ Range(Only(s, S)) = Range(s) \cap S
         /\ Len(Only(s, S)) \in Nat
<1> DEFINE f == FilterOf(s, S)
           Good(i) == f[i] \in Seq(T) /\ Range(f[i]) = {s[k] : k \in 1..i} \cap S
           Bad == {i \in 0..Len(s) : ~ Good(i)}
<1>1. /\ \A i \in 0..Len(s) : f[i] =
              IF i = 0 THEN <<>>
              ELSE IF s[i] \in S THEN Append(f[i - 1], s[i]) ELSE f[i - 1]
      /\ Only(s, S) = f[Len(s)]
  BY FilterIs
<1> HIDE DEF f
<1>2. Bad = {}
  <2> SUFFICES ASSUME Bad # {} PROVE FALSE
    OBVIOUS
  <2>1. Len(s) \in Nat /\ Bad \in SUBSET Nat
    OBVIOUS
  <2>2. PICK i \in Bad : \A k \in Bad : i <= k
    BY <2>1, LeastNat
  <2>3. i # 0
    <3>1. f[0] = <<>>
      BY <1>1, <2>1
    <3>2. Range(<<>>) = {} /\ <<>> \in Seq(T) /\ {s[k] : k \in 1..0} = {}
      BY DEF Range
    <3>3. Good(0)
      BY <3>1, <3>2
    <3> QED BY <3>3
  <2>4. i - 1 \in 0..Len(s) /\ i \in 1..Len(s) /\ s[i] \in T
    BY <2>1, <2>2, <2>3
  <2>5. i - 1 \notin Bad
    <3>1. ~(i <= i - 1)
      BY <2>4
    <3> QED BY <2>2, <3>1
  <2>6. Good(i - 1)
    BY <2>4, <2>5
  <2>7. f[i] = IF s[i] \in S THEN Append(f[i - 1], s[i]) ELSE f[i - 1]
    BY <1>1, <2>3, <2>4
  <2>8. {s[k] : k \in 1..i} = {s[k] : k \in 1..(i - 1)} \cup {s[i]}
    BY <2>4
  <2>9. CASE s[i] \in S
    <3>1. f[i] = Append(f[i - 1], s[i]) /\ f[i] \in Seq(T)
      BY <2>4, <2>6, <2>7, <2>9
    <3>2. Range(f[i]) = Range(f[i - 1]) \cup {s[i]}
      BY <2>4, <2>6, <3>1, RangeAppend
    <3>3. Good(i)
      BY <2>6, <2>8, <2>9, <3>1, <3>2
    <3> QED BY <3>3
  <2>10. CASE s[i] \notin S
    <3>1. Good(i)
      BY <2>6, <2>7, <2>8, <2>10
    <3> QED BY <3>1
  <2> QED BY <2>9, <2>10
<1>3. Len(s) \in 0..Len(s)
  OBVIOUS
<1>4. Good(Len(s))
  BY <1>2, <1>3
<1>5. Range(s) = {s[k] : k \in 1..Len(s)}
  BY DEF Range
<1> QED BY <1>1, <1>4, <1>5

\* To filter by one set and then by another is to filter by both.
LEMMA OnlyOnly ==
  ASSUME NEW T, NEW s \in Seq(T), NEW A, NEW B
  PROVE  Only(Only(s, A), B) = Only(s, A \cap B)
<1> DEFINE f == FilterOf(s, A)
           g == FilterOf(s, A \cap B)
           Bad == {i \in 0..Len(s) : ~(f[i] \in Seq(T) /\ Only(f[i], B) = g[i])}
<1>1. /\ \A i \in 0..Len(s) : f[i] =
              IF i = 0 THEN <<>>
              ELSE IF s[i] \in A THEN Append(f[i - 1], s[i]) ELSE f[i - 1]
      /\ \A i \in 0..Len(s) : g[i] =
              IF i = 0 THEN <<>>
              ELSE IF s[i] \in A \cap B THEN Append(g[i - 1], s[i]) ELSE g[i - 1]
      /\ Only(s, A) = f[Len(s)] /\ Only(s, A \cap B) = g[Len(s)]
  BY FilterIs
<1> HIDE DEF f, g
<1>2. Bad = {}
  <2> SUFFICES ASSUME Bad # {} PROVE FALSE
    OBVIOUS
  <2>1. Len(s) \in Nat /\ Bad \in SUBSET Nat
    OBVIOUS
  <2>2. PICK i \in Bad : \A k \in Bad : i <= k
    BY <2>1, LeastNat
  <2>3. i # 0
    <3>1. f[0] = <<>> /\ g[0] = <<>> /\ <<>> \in Seq(T)
      BY <1>1, <2>1
    <3> QED BY <3>1, OnlyEmpty
  <2>4. i - 1 \in 0..Len(s) /\ i \in 1..Len(s) /\ s[i] \in T
    BY <2>1, <2>2, <2>3
  <2>5. i - 1 \notin Bad
    <3>1. ~(i <= i - 1)
      BY <2>4
    <3> QED BY <2>2, <3>1
  <2>6. f[i - 1] \in Seq(T) /\ Only(f[i - 1], B) = g[i - 1]
    BY <2>4, <2>5
  <2>7. /\ f[i] = IF s[i] \in A THEN Append(f[i - 1], s[i]) ELSE f[i - 1]
        /\ g[i] = IF s[i] \in A \cap B THEN Append(g[i - 1], s[i]) ELSE g[i - 1]
    BY <1>1, <2>3, <2>4
  <2> HIDE DEF Bad
  <2>8. Only(Append(f[i - 1], s[i]), B)
          = IF s[i] \in B THEN Append(Only(f[i - 1], B), s[i]) ELSE Only(f[i - 1], B)
    <3> DEFINE u == f[i - 1]
               y == s[i]
    <3>1. u \in Seq(T) /\ y \in T
      BY <2>4, <2>6
    <3> HIDE DEF u, y
    <3>2. Only(Append(u, y), B) = IF y \in B THEN Append(Only(u, B), y) ELSE Only(u, B)
      BY <3>1, OnlyAppend
    <3> QED BY <3>2 DEF u, y
  <2>9. f[i] \in Seq(T)
    BY <2>4, <2>6, <2>7
  <2>10. Only(f[i], B) = g[i]
    BY <2>6, <2>7, <2>8
  <2> QED BY <2>2, <2>9, <2>10 DEF Bad
<1>3. Len(s) \in 0..Len(s)
  OBVIOUS
<1> QED BY <1>1, <1>2, <1>3

-----------------------------------------------------------------------------
(* The ledger file. *)

Line == Rec \cup Old \cup {Junk}
Tails == {Nothing, Spoiled} \cup [kind : {"partial", "open"}, rec : Rec]
FileContent == [lines : Seq(Line), tail : Tails]

\* The records a parser finds.
In(content) == Range(Lines(content)) \cap Rec

LedgerType ==
    /\ disk \in [1..MaxInodes -> FileContent]
    /\ inodes \in 1..MaxInodes /\ path \in 0..inodes
    /\ writer = Idle \/ writer \in [pc : {"open"}, rec : Rec, inode : 1..inodes, done : 0..2]
    /\ reader = Idle \/ reader \in [pc : {"scan"}, inode : 1..inodes, clean : BOOLEAN, quiet : BOOLEAN]
    /\ \/ purge = Idle \/ purge = [pc |-> "remove"]
       \/ purge \in [pc : {"rewrite"}, kept : Seq(Line), doomed : SUBSET Rec]
    /\ appended \in SUBSET Rec /\ broken \in Nat
    /\ acked \in SUBSET appended /\ raced \in SUBSET appended /\ erased \in SUBSET appended
    /\ IsFiniteSet(acked)
    /\ \A i \in 1..MaxInodes : i > inodes => disk[i] = Empty

Writing == writer # Idle
Rewriting == purge # Idle /\ purge.pc = "rewrite"
Begun(t) == t.kind \in {"partial", "open"}

\* Whatever is on disk, or about to be, was handed to Append.
OnlyAppended ==
    /\ \A i \in 1..MaxInodes :
         In(disk[i]) \subseteq appended /\ (Begun(disk[i].tail) => disk[i].tail.rec \in appended)
    /\ Rewriting => Range(purge.kept) \cap Rec \subseteq appended /\ purge.doomed \subseteq appended
    /\ Writing => writer.rec \in appended \ acked

\* An unfinished line is of a record whose Append has not returned nil, and if
\* that Append is still under way it writes here.
TailIsOpen ==
    /\ Writing /\ writer.done = 0 =>
         disk[writer.inode].tail \notin {Partial(writer.rec), Whole(writer.rec)}
    /\ path # Absent /\ Begun(disk[path].tail) =>
         /\ disk[path].tail.rec \notin acked
         /\ Writing /\ writer.rec = disk[path].tail.rec => writer.inode = path

ErasedIsGone ==
    /\ path # Absent => erased \cap In(disk[path]) = {}
    /\ Rewriting => (erased \cup purge.doomed) \cap Range(purge.kept) = {}
    /\ Writing /\ writer.rec \in erased => writer.inode # path

\* What the purge's copy lacks is doomed, raced it, or was lost before.
CopyIsWhole ==
    Rewriting =>
        \A r \in acked \ (erased \cup raced \cup purge.doomed) :
            r \notin Range(purge.kept) => r \notin In(Current)

\* An unfinished line that the next record will be glued to has been paid for.
Mine == Writing /\ writer.inode = path
        /\ disk[path].tail \in {Partial(writer.rec), Whole(writer.rec)}
Stump == path # Absent /\ disk[path].tail # Nothing /\ ~Mine
Lost == {r \in acked \ (erased \cup raced) : r \notin In(Current)}
LossIsPaid == Cardinality(Lost) + (IF Stump THEN 1 ELSE 0) <= broken

QuietIsFresh ==
    reader # Idle /\ reader.quiet => (reader.clean <=> disk[reader.inode].tail = Nothing)

LedgerInv ==
    /\ LedgerType /\ OnlyAppended /\ TailIsOpen /\ ErasedIsGone /\ CopyIsWhole
    /\ LossIsPaid /\ QuietIsFresh

LEMMA Shapes ==
  /\ Nothing.kind = "clean" /\ Spoiled.kind = "spoiled" /\ Idle.pc = "idle"
  /\ \A r : Partial(r).kind = "partial" /\ Partial(r).rec = r
            /\ Whole(r).kind = "open" /\ Whole(r).rec = r
  /\ \A r \in Rec : Partial(r) \in Tails /\ Whole(r) \in Tails
  /\ Nothing \in Tails /\ Spoiled \in Tails
  /\ \A t \in Tails : /\ t.kind = "clean" => t = Nothing
                      /\ t.kind = "spoiled" => t = Spoiled
                      /\ t.kind = "partial" => t.rec \in Rec /\ t = Partial(t.rec)
                      /\ t.kind = "open" => t.rec \in Rec /\ t = Whole(t.rec)
                      /\ t.kind \in {"clean", "spoiled", "partial", "open"}
<1>1. \A t \in [kind : {"partial", "open"}, rec : Rec] :
        /\ t.kind \in {"partial", "open"} /\ t.rec \in Rec
        /\ t = [kind |-> t.kind, rec |-> t.rec]
  OBVIOUS
<1> QED BY <1>1 DEF Nothing, Spoiled, Idle, Partial, Whole, Tails

LEMMA EmptyIs == Empty \in FileContent /\ In(Empty) = {} /\ Empty.tail = Nothing
                 /\ Empty.lines = <<>> /\ Lines(Empty) = <<>>
<1>1. Empty.tail = Nothing /\ Empty.lines = <<>> /\ <<>> \in Seq(Line)
  BY DEF Empty
<1>2. Empty \in FileContent
  BY <1>1, Shapes DEF Empty, FileContent
<1>3. Lines(Empty) = <<>>
  BY <1>1 DEF Lines
<1>4. Range(<<>>) = {}
  BY DEF Range
<1> QED BY <1>1, <1>2, <1>3, <1>4 DEF In

LEMMA LinesAre ==
  ASSUME NEW c \in FileContent
  PROVE  /\ c.lines \in Seq(Line) /\ c.tail \in Tails
         /\ Lines(c) \in Seq(Line)
         /\ Readable(c) \in Seq(Line) /\ Range(Readable(c)) = In(c)
         /\ In(c) = (Range(c.lines) \cap Rec)
                    \cup (IF c.tail.kind = "open" THEN {c.tail.rec} ELSE {})
<1>1. c.lines \in Seq(Line) /\ c.tail \in Tails
  BY DEF FileContent
<1> DEFINE end == IF IsWhole(c.tail) THEN c.tail.rec ELSE Junk
<1>2. end \in Line /\ (c.tail.kind = "open" => end = c.tail.rec /\ end \in Rec)
      /\ (c.tail.kind # "open" => end = Junk)
  BY <1>1, Shapes DEF Line, IsWhole
<1>3. Junk \notin Rec
  BY LedgerAssumption DEF Junk
<1> HIDE DEF end
<1>4. Lines(c) = IF c.tail = Nothing THEN c.lines ELSE Append(c.lines, end)
  BY DEF Lines, end
<1>5. Lines(c) \in Seq(Line)
  BY <1>1, <1>2, <1>4
<1>6. Readable(c) \in Seq(Line) /\ Range(Readable(c)) = Range(Lines(c)) \cap Rec
  BY <1>5, OnlyType DEF Readable
<1>7. Range(Append(c.lines, end)) = Range(c.lines) \cup {end}
  BY <1>1, <1>2, RangeAppend
<1>8. CASE c.tail = Nothing
  <2>1. In(c) = Range(c.lines) \cap Rec
    BY <1>4, <1>8 DEF In
  <2> QED BY <1>1, <1>5, <1>6, <1>8, <2>1, Shapes DEF In
<1>9. CASE c.tail # Nothing
  <2>1. In(c) = (Range(c.lines) \cup {end}) \cap Rec
    BY <1>4, <1>7, <1>9 DEF In
  <2>2. CASE c.tail.kind = "open"
    BY <1>1, <1>2, <1>5, <1>6, <2>1, <2>2 DEF In
  <2>3. CASE c.tail.kind # "open"
    BY <1>1, <1>2, <1>3, <1>5, <1>6, <2>1, <2>3 DEF In
  <2> QED BY <2>2, <2>3
<1> QED BY <1>8, <1>9

IsMine(c, r) == c.tail \in {Nothing, Partial(r), Whole(r)}

\* What a write does to a file.
LEMMA WrittenIs ==
  ASSUME NEW c \in FileContent, NEW r \in Rec, NEW done \in 1..3
  PROVE  /\ Written(c, r, done) \in FileContent
         /\ done = 3 => Written(c, r, done).tail = Nothing
         /\ done # 3 /\ IsMine(c, r) => Written(c, r, done).tail \in {Partial(r), Whole(r)}
         /\ done # 3 /\ ~IsMine(c, r) => Written(c, r, done).tail = Spoiled
         /\ In(Written(c, r, done)) \subseteq In(c) \cup {r}
         /\ \A x \in In(c) : x # c.tail.rec \/ c.tail.kind # "open" \/ (IsMine(c, r) /\ x # r)
                => x \in In(Written(c, r, done))
         /\ done = 3 /\ IsMine(c, r) => r \in In(Written(c, r, done))
<1> DEFINE w == Written(c, r, done)
           mine == IsMine(c, r)
           end == IF mine THEN r ELSE Junk
<1>1. c.lines \in Seq(Line) /\ c.tail \in Tails /\ c = [lines |-> c.lines, tail |-> c.tail]
  BY DEF FileContent
<1>2. end \in Line /\ Junk \notin Rec
  BY LedgerAssumption DEF Line, Junk
<1>3. In(c) = (Range(c.lines) \cap Rec) \cup (IF c.tail.kind = "open" THEN {c.tail.rec} ELSE {})
  BY LinesAre
<1>4. ASSUME mine, c.tail.kind = "open" PROVE c.tail.rec = r
  BY <1>4, Shapes DEF IsMine
<1>5. CASE done = 3
  <2>1. w = [lines |-> Append(c.lines, end), tail |-> Nothing]
    BY <1>5 DEF Written, IsMine
  <2> HIDE DEF w, end
  <2>2. w.lines = Append(c.lines, end) /\ w.tail = Nothing /\ w \in FileContent
    BY <1>1, <1>2, <2>1, Shapes DEF FileContent
  <2>3. In(w) = (Range(c.lines) \cup {end}) \cap Rec
    <3>1. Range(Append(c.lines, end)) = Range(c.lines) \cup {end}
      BY <1>1, <1>2, RangeAppend
    <3>2. In(w) = Range(w.lines) \cap Rec
      BY <2>2, LinesAre, Shapes
    <3> QED BY <2>2, <3>1, <3>2
  <2> QED BY <1>2, <1>3, <1>4, <1>5, <2>2, <2>3 DEF w, end
<1>6. CASE done # 3
  <2> DEFINE tl == IF ~mine THEN Spoiled ELSE IF done = 1 THEN Partial(r) ELSE Whole(r)
  <2>1. w = [c EXCEPT !.tail = tl]
    BY <1>6 DEF Written, IsMine
  <2>2. tl \in Tails
    BY Shapes
  <2>3. w = [lines |-> c.lines, tail |-> tl]
    BY <1>1, <2>1
  <2>4. (mine => tl \in {Partial(r), Whole(r)}) /\ (~mine => tl = Spoiled)
    OBVIOUS
  <2> HIDE DEF w, tl
  <2>5. w.lines = c.lines /\ w.tail = tl /\ w \in FileContent
    BY <1>1, <2>2, <2>3 DEF FileContent
  <2>6. In(w) = (Range(c.lines) \cap Rec) \cup (IF tl.kind = "open" THEN {tl.rec} ELSE {})
    BY <2>5, LinesAre
  <2>7. tl.kind = "open" => mine /\ tl.rec = r
    BY <2>4, Shapes
  <2> HIDE DEF mine
  <2>8. \A x \in In(c) : x # c.tail.rec \/ c.tail.kind # "open" \/ (mine /\ x # r) => x \in In(w)
    BY <1>3, <1>4, <2>6 DEF mine
  <2>9. In(w) \subseteq In(c) \cup {r}
    BY <1>3, <2>6, <2>7
  <2> QED BY <1>6, <2>4, <2>5, <2>8, <2>9 DEF w, mine
<1> QED BY <1>5, <1>6

LEMMA LedgerInit == Init => LedgerInv
<1> SUFFICES ASSUME Init PROVE LedgerInv
  OBVIOUS
<1> USE DEF Init
<1>1. PICK first \in {<<>>} \cup {<<r>> : r \in Old} :
        disk = [i \in 1..MaxInodes |-> IF i = 1 THEN [Empty EXCEPT !.lines = first] ELSE Empty]
  OBVIOUS
<1> DEFINE c == [lines |-> first, tail |-> Nothing]
<1>2. [Empty EXCEPT !.lines = first] = c
  BY DEF Empty
<1>3. first \in Seq(Line) /\ Range(first) \cap Rec = {}
  <2>1. CASE first = <<>>
    BY <2>1 DEF Range
  <2>2. CASE \E r \in Old : first = <<r>>
    <3>1. PICK r \in Old : first = <<r>>
      BY <2>2
    <3>2. r \in Line /\ r \notin Rec
      BY LedgerAssumption DEF Line
    <3> QED BY <3>1, <3>2 DEF Range
  <2> QED BY <2>1, <2>2
<1>4. c \in FileContent /\ c.tail = Nothing /\ c.lines = first
  BY <1>3, Shapes DEF FileContent
<1>5. In(c) = {}
  BY <1>3, <1>4, LinesAre, Shapes
<1> HIDE DEF c
<1>6. MaxInodes \in Nat /\ 1 \in 1..MaxInodes
  BY LedgerAssumption
<1>7. /\ disk \in [1..MaxInodes -> FileContent]
      /\ \A i \in 1..MaxInodes : In(disk[i]) = {} /\ disk[i].tail = Nothing
      /\ \A i \in 1..MaxInodes : i > 1 => disk[i] = Empty
  BY <1>1, <1>2, <1>4, <1>5, <1>6, EmptyIs
<1>8. LedgerType
  BY <1>6, <1>7, FS_EmptySet DEF LedgerType
<1>9. OnlyAppended /\ TailIsOpen /\ ErasedIsGone /\ CopyIsWhole /\ QuietIsFresh
  BY <1>7, Shapes DEF OnlyAppended, TailIsOpen, ErasedIsGone, CopyIsWhole, QuietIsFresh,
     Writing, Rewriting, Begun, Absent
<1>10. LossIsPaid
  <2>1. Lost = {} /\ ~Stump
    BY <1>6, <1>7 DEF Lost, Stump
  <2>2. Cardinality(Lost) = 0
    BY <2>1, FS_EmptySet
  <2> QED BY <2>1, <2>2 DEF LossIsPaid
<1> QED BY <1>8, <1>9, <1>10 DEF LedgerInv

LEMMA CurrentIs ==
  ASSUME LedgerType
  PROVE  /\ Current \in FileContent
         /\ path = Absent => Current = Empty /\ In(Current) = {}
         /\ path # Absent => path \in 1..MaxInodes /\ Current = disk[path]
         /\ \A i \in 1..MaxInodes : disk[i] \in FileContent
         /\ MaxInodes \in Nat /\ 1..inodes \subseteq 1..MaxInodes
         /\ IsFiniteSet(Lost)
<1>1. MaxInodes \in Nat /\ inodes \in 1..MaxInodes /\ path \in 0..inodes
  BY LedgerAssumption DEF LedgerType
<1>2. path # Absent => path \in 1..MaxInodes
  BY <1>1 DEF Absent
<1>3. \A i \in 1..MaxInodes : disk[i] \in FileContent
  BY DEF LedgerType
<1>4. IsFiniteSet(Lost)
  <2>1. Lost \in SUBSET acked
    BY DEF Lost
  <2> QED BY <2>1, FS_Subset DEF LedgerType
<1> QED BY <1>1, <1>2, <1>3, <1>4, EmptyIs DEF Current

\* No more is lost than was, or one record more.
LEMMA NoMoreLost ==
  ASSUME LedgerType, LedgerType', Lost' \subseteq Lost
  PROVE  Cardinality(Lost') <= Cardinality(Lost) /\ Cardinality(Lost) \in Nat
         /\ Cardinality(Lost') \in Nat
<1>1. IsFiniteSet(Lost)
  BY CurrentIs
<1>2. IsFiniteSet(Lost')
  BY <1>1, FS_Subset
<1> QED BY <1>1, <1>2, FS_Subset, FS_CardinalityType

LEMMA OneMoreLost ==
  ASSUME LedgerType, NEW r, Lost' \subseteq Lost \cup {r}
  PROVE  Cardinality(Lost') <= Cardinality(Lost) + 1 /\ Cardinality(Lost) \in Nat
         /\ Cardinality(Lost') \in Nat
<1>1. IsFiniteSet(Lost)
  BY CurrentIs
<1>2. IsFiniteSet(Lost \cup {r}) /\ Cardinality(Lost) \in Nat
      /\ Cardinality(Lost \cup {r}) <= Cardinality(Lost) + 1
  <2>1. Cardinality(Lost) \in Nat
    BY <1>1, FS_CardinalityType
  <2>2. /\ IsFiniteSet(Lost \cup {r})
        /\ Cardinality(Lost \cup {r}) = IF r \in Lost THEN Cardinality(Lost) ELSE Cardinality(Lost) + 1
    BY <1>1, FS_AddElement, Zenon
  <2> QED BY <2>1, <2>2
<1>3. IsFiniteSet(Lost') /\ Cardinality(Lost') <= Cardinality(Lost \cup {r})
  BY <1>2, FS_Subset
<1> QED BY <1>2, <1>3, FS_CardinalityType

-----------------------------------------------------------------------------
LEMMA OpenStep ==
  ASSUME LedgerInv, NEW r \in Rec, Open(r) PROVE LedgerInv'
<1> USE DEF LedgerInv
<1>0. LedgerType /\ OnlyAppended /\ TailIsOpen /\ ErasedIsGone /\ CopyIsWhole /\ LossIsPaid
      /\ QuietIsFresh
  OBVIOUS
<1>1. /\ writer = Idle /\ r \notin appended /\ (path = Absent => inodes < MaxInodes)
      /\ writer' = [pc |-> "open", rec |-> r, inode |-> path', done |-> 0]
      /\ appended' = appended \cup {r}
      /\ disk' = disk /\ reader' = reader /\ purge' = purge /\ acked' = acked /\ raced' = raced
      /\ broken' = broken /\ erased' = erased
  BY DEF Open
<1>2. path = Absent => path' = inodes + 1 /\ inodes' = inodes + 1
  BY DEF Open
<1>3. path # Absent => path' = path /\ inodes' = inodes
  BY DEF Open
<1>4. /\ inodes \in 1..MaxInodes /\ path \in 0..inodes /\ MaxInodes \in Nat
  BY CurrentIs DEF LedgerType
<1>5. /\ inodes' \in 1..MaxInodes /\ path' \in 1..inodes' /\ inodes <= inodes' /\ path' # Absent
      /\ path' \in 1..MaxInodes
  BY <1>1, <1>2, <1>3, <1>4 DEF Absent
<1>6. path = Absent => disk[path'] = Empty
  BY <1>2, <1>4, <1>5 DEF LedgerType
<1>7. LedgerType'
  <2>1. writer' \in [pc : {"open"}, rec : Rec, inode : 1..inodes', done : 0..2]
    BY <1>1, <1>5
  <2>2. 1..inodes \subseteq 1..inodes'
    BY <1>4, <1>5
  <2>3. reader' = Idle \/ reader' \in [pc : {"scan"}, inode : 1..inodes', clean : BOOLEAN, quiet : BOOLEAN]
    BY <1>1, <2>2 DEF LedgerType
  <2>4. \A i \in 1..MaxInodes : i > inodes' => disk'[i] = Empty
    BY <1>1, <1>4, <1>5 DEF LedgerType
  <2>5. path' \in 0..inodes'
    BY <1>5
  <2> QED BY <1>1, <1>5, <2>1, <2>3, <2>4, <2>5 DEF LedgerType
<1>8. Current' = Current
  BY <1>1, <1>3, <1>5, <1>6 DEF Current
<1>9. writer' # Idle /\ writer'.rec = r /\ writer'.inode = path' /\ writer'.done = 0
  BY <1>1, Shapes
<1>10. OnlyAppended'
  BY <1>0, <1>1, <1>9, Zenon DEF OnlyAppended, Writing, Rewriting, LedgerType
<1>11. ASSUME NEW i \in 1..MaxInodes PROVE disk[i].tail \notin {Partial(r), Whole(r)}
                                     /\ (Begun(disk[i].tail) => disk[i].tail.rec # r)
  BY <1>0, <1>1, Shapes DEF OnlyAppended, Begun
<1>12. TailIsOpen'
  <2>1. path = Absent => ~Begun(disk'[path'].tail)
    BY <1>1, <1>6, EmptyIs, Shapes DEF Begun
  <2> QED BY <1>0, <1>1, <1>3, <1>5, <1>9, <1>11, <2>1 DEF TailIsOpen, Writing
<1>13. ErasedIsGone'
  <2>1. erased' \cap In(disk'[path']) = {}
    BY <1>0, <1>1, <1>3, <1>6, EmptyIs DEF ErasedIsGone
  <2>2. writer'.rec \notin erased'
    BY <1>0, <1>1, <1>9 DEF LedgerType
  <2> QED BY <1>0, <1>1, <2>1, <2>2 DEF ErasedIsGone, Rewriting
<1>14. CopyIsWhole'
  BY <1>0, <1>1, <1>8 DEF CopyIsWhole, Rewriting
<1>15. LossIsPaid'
  <2>1. Lost' = Lost
    BY <1>1, <1>8 DEF Lost
  <2>2. Stump' => Stump
    <3> SUFFICES ASSUME Stump' PROVE Stump
      OBVIOUS
    <3>1. disk'[path'].tail # Nothing
      BY DEF Stump
    <3>2. path # Absent
      BY <1>1, <1>6, <3>1, EmptyIs
    <3> QED BY <1>1, <1>3, <3>1, <3>2 DEF Stump, Mine, Writing
  <2> QED BY <1>0, <1>1, <2>1, <2>2, NoMoreLost, <1>7 DEF LossIsPaid, LedgerType
<1>16. QuietIsFresh'
  BY <1>0, <1>1 DEF QuietIsFresh
<1> QED BY <1>7, <1>10, <1>12, <1>13, <1>14, <1>15, <1>16

LEMMA InterruptedStep ==
  ASSUME LedgerInv, Interrupted PROVE LedgerInv'
<1>0. LedgerType /\ OnlyAppended /\ TailIsOpen /\ ErasedIsGone /\ CopyIsWhole /\ LossIsPaid
      /\ QuietIsFresh
  BY DEF LedgerInv
<1>1. /\ Writing /\ writer' = Idle
      /\ broken' = broken + (IF writer.done = 0 THEN 0 ELSE 1)
      /\ UNCHANGED <<disk, path, inodes, reader, purge, appended, acked, raced, erased>>
  BY DEF Interrupted, Writing
<1>2. LedgerType'
  BY <1>0, <1>1 DEF LedgerType
<1>3. Current' = Current /\ Lost' = Lost
  BY <1>1 DEF Current, Lost
<1>4. OnlyAppended' /\ TailIsOpen' /\ ErasedIsGone' /\ CopyIsWhole' /\ QuietIsFresh'
  BY <1>0, <1>1, <1>3 DEF OnlyAppended, TailIsOpen, ErasedIsGone, CopyIsWhole, QuietIsFresh,
     Writing, Rewriting
<1>5. LossIsPaid'
  <2>1. Cardinality(Lost) \in Nat /\ broken \in Nat
    BY <1>0, CurrentIs, FS_CardinalityType DEF LedgerType
  <2>2. CASE writer.done = 0
    <3>1. Stump' => Stump
      BY <1>0, <1>1, <2>2 DEF Stump, Mine, TailIsOpen, Writing
    <3> QED BY <1>0, <1>1, <1>3, <2>1, <2>2, <3>1 DEF LossIsPaid
  <2>3. CASE writer.done # 0
    BY <1>0, <1>1, <1>3, <2>1, <2>3 DEF LossIsPaid
  <2> QED BY <2>2, <2>3
<1> QED BY <1>2, <1>4, <1>5 DEF LedgerInv

LEMMA ReaderStep ==
  ASSUME LedgerInv, endsWithNewline \/ Return PROVE LedgerInv'
<1>0. LedgerType /\ OnlyAppended /\ TailIsOpen /\ ErasedIsGone /\ CopyIsWhole /\ LossIsPaid
      /\ QuietIsFresh
  BY DEF LedgerInv
<1>1. UNCHANGED <<disk, path, inodes, writer, purge, appended, acked, raced, broken, erased>>
  BY DEF endsWithNewline, Return, history
<1>2. \/ reader' = Idle
      \/ path # Absent /\ reader' = [pc |-> "scan", inode |-> path,
                                    clean |-> disk[path].tail = Nothing, quiet |-> TRUE]
  BY DEF endsWithNewline, Return
<1> DEFINE ends == disk[path].tail = Nothing
<1>a. /\ ends \in BOOLEAN
      /\ \/ reader' = Idle
         \/ path # Absent /\ reader' = [pc |-> "scan", inode |-> path, clean |-> ends, quiet |-> TRUE]
  BY <1>2
<1>b. ends <=> disk[path].tail = Nothing
  OBVIOUS
<1> HIDE DEF ends
<1>3. LedgerType'
  <2>1. path # Absent => path \in 1..inodes
    BY <1>0, CurrentIs DEF LedgerType, Absent
  <2>2. reader' = Idle \/ reader' \in [pc : {"scan"}, inode : 1..inodes, clean : BOOLEAN, quiet : BOOLEAN]
    <3>1. CASE reader' = Idle
      BY <3>1
    <3>2. CASE path # Absent /\ reader' = [pc |-> "scan", inode |-> path, clean |-> ends, quiet |-> TRUE]
      <4>1. ends \in BOOLEAN /\ path \in 1..inodes /\ TRUE \in BOOLEAN
        BY <1>a, <2>1, <3>2
      <4>2. [pc |-> "scan", inode |-> path, clean |-> ends, quiet |-> TRUE]
              \in [pc : {"scan"}, inode : 1..inodes, clean : BOOLEAN, quiet : BOOLEAN]
        BY <4>1, Zenon
      <4> QED BY <3>2, <4>2, Zenon
    <3> QED BY <1>a, <3>1, <3>2, Zenon
  <2> QED BY <1>0, <1>1, <2>2 DEF LedgerType
<1>4. OnlyAppended' /\ TailIsOpen' /\ ErasedIsGone'
  BY <1>0, <1>1 DEF OnlyAppended, TailIsOpen, ErasedIsGone, Writing, Rewriting
<1>5. CopyIsWhole' /\ LossIsPaid'
  BY <1>0, <1>1 DEF CopyIsWhole, LossIsPaid, Current, Lost, Stump, Mine, Writing, Rewriting
<1>6. QuietIsFresh'
  <2>1. CASE reader' = Idle
    BY <2>1 DEF QuietIsFresh
  <2>2. CASE reader' = [pc |-> "scan", inode |-> path, clean |-> ends, quiet |-> TRUE]
    <3>1. reader'.inode = path /\ reader'.clean = ends
      BY <2>2
    <3> QED BY <1>1, <1>b, <3>1 DEF QuietIsFresh
  <2> QED BY <1>a, <2>1, <2>2
<1> QED BY <1>3, <1>4, <1>5, <1>6 DEF LedgerInv

\* What a write changes, without the cases.
LEMMA WriteIs ==
  ASSUME LedgerType, NEW done \in 1..3, Write(done)
  PROVE  /\ Writing /\ writer.rec \in Rec /\ writer.inode \in 1..MaxInodes
         /\ writer.inode \in 1..inodes /\ writer.done \in 0..2
         /\ disk' = [disk EXCEPT ![writer.inode] = Written(disk[writer.inode], writer.rec, done)]
         /\ disk[writer.inode] \in FileContent
         /\ raced' = IF Overlaps(writer.inode) THEN raced \cup {writer.rec} ELSE raced
         /\ done = 3 => writer' = Idle /\ acked' = acked \cup {writer.rec}
         /\ done # 3 => /\ acked' = acked
                        /\ writer' \in [pc : {"open"}, rec : Rec, inode : 1..inodes, done : 1..2]
                        /\ writer' # Idle
                        /\ writer'.rec = writer.rec /\ writer'.inode = writer.inode
                        /\ writer'.done # 0
         /\ reader # Idle /\ reader.inode = writer.inode => ~(reader'.quiet)
         /\ ~(reader # Idle /\ reader.inode = writer.inode) => reader' = reader
         /\ reader' = Idle \/ reader' \in [pc : {"scan"}, inode : 1..inodes, clean : BOOLEAN, quiet : BOOLEAN]
         /\ UNCHANGED <<path, inodes, purge, appended, broken, erased>>
<1>1. Writing /\ writer.done < done
  BY DEF Write, Writing
<1>2. writer \in [pc : {"open"}, rec : Rec, inode : 1..inodes, done : 0..2]
  BY <1>1 DEF LedgerType, Writing
<1>3. writer.rec \in Rec /\ writer.inode \in 1..inodes /\ writer.inode \in 1..MaxInodes
      /\ writer.done \in 0..2 /\ disk[writer.inode] \in FileContent
  BY <1>2, CurrentIs
<1>4. disk' = [disk EXCEPT ![writer.inode] = Written(disk[writer.inode], writer.rec, done)]
  BY DEF Write
<1>5. ASSUME done # 3
      PROVE  /\ acked' = acked
             /\ writer' \in [pc : {"open"}, rec : Rec, inode : 1..inodes, done : 1..2]
             /\ writer' # Idle
             /\ writer'.rec = writer.rec /\ writer'.inode = writer.inode /\ writer'.done # 0
  <2>1. writer' = [writer EXCEPT !.done = done] /\ acked' = acked
    BY <1>5 DEF Write
  <2>2. done \in 1..2
    BY <1>5
  <2>3. /\ writer' \in [pc : {"open"}, rec : Rec, inode : 1..inodes, done : 1..2]
        /\ writer'.rec = writer.rec /\ writer'.inode = writer.inode /\ writer'.done = done
        /\ writer'.pc = "open"
    BY <1>2, <2>1, <2>2
  <2> QED BY <2>1, <2>2, <2>3, Shapes
<1>6. CASE reader # Idle /\ reader.inode = writer.inode
  <2>1. reader \in [pc : {"scan"}, inode : 1..inodes, clean : BOOLEAN, quiet : BOOLEAN]
    BY <1>6 DEF LedgerType
  <2>2. reader' = [reader EXCEPT !.quiet = FALSE]
    BY <1>6 DEF Write
  <2>3. reader' \in [pc : {"scan"}, inode : 1..inodes, clean : BOOLEAN, quiet : BOOLEAN]
        /\ ~(reader'.quiet)
    BY <2>1, <2>2, Zenon
  <2> QED BY <1>1, <1>3, <1>4, <1>5, <1>6, <2>3 DEF Write
<1>7. CASE ~(reader # Idle /\ reader.inode = writer.inode)
  <2>1. reader' = reader
    BY <1>7 DEF Write
  <2>2. reader = Idle \/ reader \in [pc : {"scan"}, inode : 1..inodes, clean : BOOLEAN, quiet : BOOLEAN]
    BY DEF LedgerType
  <2> QED BY <1>1, <1>3, <1>4, <1>5, <1>7, <2>1, <2>2 DEF Write
<1> QED BY <1>6, <1>7

LEMMA WriteStep ==
  ASSUME LedgerInv, NEW done \in 1..3, Write(done) PROVE LedgerInv'
<1>0. LedgerType /\ OnlyAppended /\ TailIsOpen /\ ErasedIsGone /\ CopyIsWhole /\ LossIsPaid
      /\ QuietIsFresh
  BY DEF LedgerInv
<1> DEFINE i == writer.inode
           r == writer.rec
           c == disk[i]
           w == Written(c, r, done)
<1>1. /\ Writing /\ r \in Rec /\ i \in 1..MaxInodes /\ i \in 1..inodes /\ c \in FileContent
      /\ disk' = [disk EXCEPT ![i] = w]
      /\ raced' = IF Overlaps(i) THEN raced \cup {r} ELSE raced
      /\ done = 3 => writer' = Idle /\ acked' = acked \cup {r}
      /\ done # 3 => /\ acked' = acked
                     /\ writer' \in [pc : {"open"}, rec : Rec, inode : 1..inodes, done : 1..2]
                     /\ writer' # Idle
                     /\ writer'.rec = r /\ writer'.inode = i /\ writer'.done # 0
      /\ path' = path /\ inodes' = inodes /\ purge' = purge /\ appended' = appended
      /\ broken' = broken /\ erased' = erased
  BY <1>0, WriteIs
<1>2. /\ reader # Idle /\ reader.inode = i => ~(reader'.quiet)
      /\ ~(reader # Idle /\ reader.inode = i) => reader' = reader
      /\ reader' = Idle \/ reader' \in [pc : {"scan"}, inode : 1..inodes, clean : BOOLEAN, quiet : BOOLEAN]
  BY <1>0, WriteIs
<1>3. /\ w \in FileContent
      /\ done = 3 => w.tail = Nothing
      /\ done # 3 /\ IsMine(c, r) => w.tail \in {Partial(r), Whole(r)}
      /\ done # 3 /\ ~IsMine(c, r) => w.tail = Spoiled
      /\ In(w) \subseteq In(c) \cup {r}
      /\ \A x \in In(c) : x # c.tail.rec \/ c.tail.kind # "open" \/ (IsMine(c, r) /\ x # r)
             => x \in In(w)
      /\ done = 3 /\ IsMine(c, r) => r \in In(w)
  BY <1>1, WrittenIs
<1> HIDE DEF w
<1>4. disk'[i] = w /\ \A k \in 1..MaxInodes : k # i => disk'[k] = disk[k]
  BY <1>0, <1>1 DEF LedgerType
<1>5. r \in appended /\ r \notin acked
  BY <1>0, <1>1 DEF OnlyAppended
<1>6. LedgerType'
  <2>1. disk' \in [1..MaxInodes -> FileContent]
    BY <1>0, <1>1, <1>3 DEF LedgerType
  <2>2. IsFiniteSet(acked')
    <3>1. IsFiniteSet(acked)
      BY <1>0 DEF LedgerType
    <3>2. IsFiniteSet(acked \cup {r})
      BY <3>1, FS_AddElement, Zenon
    <3>3. CASE done = 3
      BY <1>1, <3>2, <3>3
    <3>4. CASE done # 3
      BY <1>1, <3>1, <3>4
    <3> QED BY <3>3, <3>4
  <2>3. writer' = Idle \/ writer' \in [pc : {"open"}, rec : Rec, inode : 1..inodes, done : 0..2]
    BY <1>1
  <2>4. \A k \in 1..MaxInodes : k > inodes => disk'[k] = Empty
    BY <1>0, <1>1, <1>4 DEF LedgerType
  <2>5. acked' \in SUBSET appended /\ raced' \in SUBSET appended
    BY <1>0, <1>1, <1>5 DEF LedgerType
  <2> QED BY <1>0, <1>1, <1>2, <2>1, <2>2, <2>3, <2>4, <2>5 DEF LedgerType
<1>7. Begun(w.tail) => w.tail.rec = r
  BY <1>3, Shapes DEF Begun
<1>8. OnlyAppended'
  <2>1. ASSUME NEW k \in 1..MaxInodes
        PROVE  In(disk'[k]) \subseteq appended /\ (Begun(disk'[k].tail) => disk'[k].tail.rec \in appended)
    <3>1. In(disk[k]) \subseteq appended /\ (Begun(disk[k].tail) => disk[k].tail.rec \in appended)
      BY <1>0 DEF OnlyAppended
    <3>2. CASE k = i
      BY <1>3, <1>4, <1>5, <1>7, <3>1, <3>2
    <3>3. CASE k # i
      BY <1>4, <3>1, <3>3
    <3> QED BY <3>2, <3>3
  <2>2. writer' # Idle => writer'.rec \in appended' \ acked'
    BY <1>1, <1>5
  <2> QED BY <1>0, <1>1, <2>1, <2>2 DEF OnlyAppended, Writing, Rewriting
<1>9. TailIsOpen'
  <2>1. writer' # Idle => writer'.done # 0
    BY <1>1
  <2>2. ASSUME path # Absent, Begun(disk'[path].tail)
        PROVE  /\ disk'[path].tail.rec \notin acked'
               /\ writer' # Idle /\ writer'.rec = disk'[path].tail.rec => writer'.inode = path
    <3>0. path \in 1..MaxInodes
      BY <1>0, <2>2, CurrentIs
    <3>1. CASE path = i
      <4>1. disk'[path].tail.rec = r
        BY <1>4, <1>7, <2>2, <3>1
      <4>2. done # 3
        BY <1>3, <1>4, <2>2, <3>1, Shapes DEF Begun
      <4> QED BY <1>1, <1>5, <3>1, <4>1, <4>2
    <3>2. CASE path # i
      <4>1. disk'[path] = disk[path]
        BY <1>4, <3>0, <3>2
      <4>2. disk[path].tail.rec \notin acked /\ disk[path].tail.rec # r
        BY <1>0, <1>1, <2>2, <3>2, <4>1 DEF TailIsOpen
      <4> QED BY <1>1, <4>1, <4>2
    <3> QED BY <3>1, <3>2
  <2> QED BY <1>1, <2>1, <2>2 DEF TailIsOpen, Writing
<1>10. ErasedIsGone'
  <2>1. ASSUME path # Absent PROVE erased \cap In(disk'[path]) = {}
    <3>0. path \in 1..MaxInodes
      BY <1>0, <2>1, CurrentIs
    <3>1. erased \cap In(disk[path]) = {}
      BY <1>0, <2>1 DEF ErasedIsGone
    <3>2. CASE path = i
      <4>1. r \notin erased
        BY <1>0, <1>1, <3>2 DEF ErasedIsGone
      <4> QED BY <1>3, <1>4, <3>1, <3>2, <4>1
    <3>3. CASE path # i
      BY <1>4, <3>0, <3>1, <3>3
    <3> QED BY <3>2, <3>3
  <2>2. writer' # Idle /\ writer'.rec \in erased => writer'.inode # path
    BY <1>0, <1>1 DEF ErasedIsGone
  <2> QED BY <1>0, <1>1, <2>1, <2>2 DEF ErasedIsGone, Writing, Rewriting
<1>11. Current' = IF path = i THEN w ELSE Current
  <2>1. i # Absent
    BY <1>1 DEF Absent
  <2> QED BY <1>0, <1>1, <1>4, <2>1, CurrentIs DEF Current
<1>12. path = i => Current = c
  BY <1>0, <1>1, CurrentIs DEF Absent
<1>13. In(Current') \subseteq In(Current) \cup {r}
  BY <1>3, <1>11, <1>12
<1>14. ASSUME NEW x \in acked, x \in In(Current) PROVE x \in In(Current')
  <2>1. CASE path # i
    BY <1>11, <1>14, <2>1
  <2>2. CASE path = i
    <3>1. x # r
      BY <1>5
    <3>2. c.tail.kind = "open" => x # c.tail.rec
      <4> SUFFICES ASSUME c.tail.kind = "open" PROVE x # c.tail.rec
        OBVIOUS
      <4>1. path # Absent /\ Begun(disk[path].tail)
        BY <1>1, <2>2 DEF Begun, Absent
      <4> QED BY <1>0, <2>2, <4>1 DEF TailIsOpen
    <3>3. x \in In(w)
      BY <1>3, <1>12, <1>14, <2>2, <3>1, <3>2
    <3> QED BY <1>11, <2>2, <3>3
  <2> QED BY <2>1, <2>2
<1>15. CopyIsWhole'
  <2> SUFFICES ASSUME Rewriting', NEW x \in acked' \ (erased' \cup raced' \cup purge'.doomed),
                      x \notin Range(purge'.kept)
               PROVE  x \notin In(Current')
    BY DEF CopyIsWhole
  <2>1. Rewriting /\ r \in raced' /\ raced \subseteq raced'
    BY <1>1 DEF Rewriting, Overlaps
  <2>2. x # r /\ x \in acked
    BY <1>1, <2>1
  <2>3. x \in acked \ (erased \cup raced \cup purge.doomed)
    BY <1>1, <2>1, <2>2
  <2>4. x \notin In(Current)
    BY <1>0, <1>1, <2>1, <2>3 DEF CopyIsWhole
  <2> QED BY <1>13, <2>2, <2>4
<1>16. QuietIsFresh'
  <2> SUFFICES ASSUME reader' # Idle, reader'.quiet
               PROVE  reader'.clean <=> disk'[reader'.inode].tail = Nothing
    BY DEF QuietIsFresh
  <2>1. ~(reader # Idle /\ reader.inode = i) /\ reader' = reader
    BY <1>2
  <2>2. reader \in [pc : {"scan"}, inode : 1..inodes, clean : BOOLEAN, quiet : BOOLEAN]
    BY <1>0, <2>1 DEF LedgerType
  <2>3. reader.inode \in 1..MaxInodes /\ reader.inode # i
    BY <1>0, <2>1, <2>2, CurrentIs
  <2>4. disk'[reader.inode] = disk[reader.inode]
    BY <1>4, <2>3
  <2> QED BY <1>0, <2>1, <2>4 DEF QuietIsFresh
<1>17. LossIsPaid'
  <2>0. broken \in Nat
    BY <1>0 DEF LedgerType
  <2>1. CASE path # i
    <3>1. Lost' \subseteq Lost
      <4>1. r \in raced' /\ raced \subseteq raced'
        BY <1>1, <2>1 DEF Overlaps
      <4> QED BY <1>1, <1>11, <2>1, <4>1 DEF Lost
    <3>2. Stump' => Stump
      <4> SUFFICES ASSUME Stump' PROVE Stump
        OBVIOUS
      <4>1. path # Absent /\ disk'[path].tail # Nothing
        BY <1>1 DEF Stump
      <4>2. disk'[path] = disk[path]
        BY <1>0, <1>4, <2>1, <4>1, CurrentIs
      <4> QED BY <2>1, <4>1, <4>2 DEF Stump, Mine
    <3> QED BY <1>0, <1>1, <1>6, <2>0, <3>1, <3>2, NoMoreLost DEF LossIsPaid
  <2>2. CASE path = i /\ IsMine(c, r)
    <3>1. Lost' \subseteq Lost
      <4> SUFFICES ASSUME NEW x \in Lost' PROVE x \in Lost
        OBVIOUS
      <4>1. x \in acked' /\ x \notin erased /\ x \notin raced /\ x \notin In(Current')
        BY <1>1 DEF Lost
      <4>2. x # r \/ done # 3
        BY <1>3, <1>11, <2>2, <4>1
      <4>3. x \in acked
        BY <1>1, <4>1, <4>2
      <4> QED BY <1>14, <4>1, <4>3 DEF Lost
    <3>2. ~Stump'
      <4>1. CASE done = 3
        BY <1>1, <1>3, <1>4, <2>2, <4>1 DEF Stump
      <4>2. CASE done # 3
        BY <1>1, <1>3, <1>4, <2>2, <4>2 DEF Stump, Mine, Writing
      <4> QED BY <4>1, <4>2
    <3> QED BY <1>0, <1>1, <1>6, <2>0, <3>1, <3>2, NoMoreLost DEF LossIsPaid
  <2>3. CASE path = i /\ ~IsMine(c, r)
    <3>1. Stump
      <4>1. path # Absent
        BY <1>1, <2>3 DEF Absent
      <4> QED BY <2>3, <4>1 DEF Stump, Mine, IsMine
    <3>2. ASSUME NEW x \in Lost', x \notin Lost PROVE x = r /\ done = 3
      <4>1. x \in acked' /\ x \notin erased /\ x \notin raced /\ x \notin In(Current')
        BY <1>1 DEF Lost
      <4> QED BY <1>1, <1>14, <3>2, <4>1 DEF Lost
    <3>3. CASE done = 3
      <4>1. ~Stump'
        BY <1>1, <1>3, <1>4, <2>3, <3>3 DEF Stump
      <4>2. Lost' \subseteq Lost \cup {r}
        BY <3>2
      <4>3. Cardinality(Lost') <= Cardinality(Lost) + 1 /\ Cardinality(Lost) \in Nat
            /\ Cardinality(Lost') \in Nat
        BY <1>0, <4>2, OneMoreLost
      <4> QED BY <1>0, <1>1, <2>0, <3>1, <4>1, <4>3 DEF LossIsPaid
    <3>4. CASE done # 3
      <4>1. Lost' \subseteq Lost
        BY <3>2, <3>4
      <4> QED BY <1>0, <1>1, <1>6, <2>0, <3>1, <4>1, NoMoreLost DEF LossIsPaid
    <3> QED BY <3>3, <3>4
  <2> QED BY <2>1, <2>2, <2>3
<1> QED BY <1>6, <1>8, <1>9, <1>10, <1>15, <1>16, <1>17 DEF LedgerInv

\* What purge has read is what it will write, without the session's records.
LEMMA KeptIs ==
  ASSUME NEW s, NEW c \in FileContent
  PROVE  /\ Kept(s, c) \in Seq(Line)
         /\ \A x \in Rec : x \in Range(Kept(s, c)) <=> x \in In(c) /\ SessionOf[x] # s
<1>1. Lines(c) \in Seq(Line)
  BY LinesAre
<1>2. Kept(s, c) \in Seq(Line) /\ Range(Kept(s, c)) = Range(Lines(c)) \cap Others(s)
  BY <1>1, OnlyType DEF Kept
<1>3. Junk \notin Rec
  BY LedgerAssumption DEF Junk
<1>4. \A x \in Rec : x \in Others(s) <=> SessionOf[x] # s
  BY <1>3 DEF Others
<1> QED BY <1>2, <1>4 DEF In

LEMMA PurgeReadStep ==
  ASSUME LedgerInv, NEW s, PurgeRead(s) PROVE LedgerInv'
<1>0. LedgerType /\ OnlyAppended /\ TailIsOpen /\ ErasedIsGone /\ CopyIsWhole /\ LossIsPaid
      /\ QuietIsFresh
  BY DEF LedgerInv
<1> DEFINE kept == Kept(s, Current)
           doomed == {r \in Rec : r \in Range(Lines(Current)) /\ SessionOf[r] = s}
<1>1. /\ path # Absent /\ purge' = [pc |-> "rewrite", kept |-> kept, doomed |-> doomed]
      /\ UNCHANGED <<disk, path, inodes, writer, reader, appended, acked, raced, broken, erased>>
  BY DEF PurgeRead, history
<1>2. Current \in FileContent /\ Current = disk[path] /\ path \in 1..MaxInodes
  BY <1>0, <1>1, CurrentIs
<1>3. /\ kept \in Seq(Line)
      /\ \A x \in Rec : x \in Range(kept) <=> x \in In(Current) /\ SessionOf[x] # s
  BY <1>2, KeptIs
<1>4. doomed \in SUBSET Rec /\ \A x \in Rec : x \in doomed <=> x \in In(Current) /\ SessionOf[x] = s
  BY DEF In
<1> HIDE DEF kept, doomed
<1>5. purge'.kept = kept /\ purge'.doomed = doomed /\ purge'.pc = "rewrite"
  BY <1>1
<1>6. In(Current) \subseteq appended /\ erased \cap In(Current) = {} /\ appended \subseteq Rec
      /\ erased \subseteq Rec /\ acked \subseteq Rec
  BY <1>0, <1>1, <1>2 DEF OnlyAppended, ErasedIsGone, LedgerType
<1>7. Current' = Current
  BY <1>1 DEF Current
<1>8. LedgerType'
  BY <1>0, <1>1, <1>3, <1>4 DEF LedgerType
<1>9. OnlyAppended'
  <2>1. Range(kept) \cap Rec \subseteq appended /\ doomed \subseteq appended
    BY <1>3, <1>4, <1>6
  <2> QED BY <1>0, <1>1, <1>5, <2>1 DEF OnlyAppended, Writing
<1>10. TailIsOpen' /\ LossIsPaid' /\ QuietIsFresh'
  BY <1>0, <1>1, <1>7 DEF TailIsOpen, LossIsPaid, QuietIsFresh, Lost, Stump, Mine, Writing
<1>11. ErasedIsGone'
  <2>1. (erased \cup doomed) \cap Range(kept) = {}
    BY <1>3, <1>4, <1>6
  <2> QED BY <1>0, <1>1, <1>5, <2>1 DEF ErasedIsGone, Writing
<1>12. CopyIsWhole'
  <2>1. ASSUME NEW x \in acked, x \notin doomed, x \notin Range(kept) PROVE x \notin In(Current)
    BY <1>3, <1>4, <1>6, <2>1
  <2> QED BY <1>1, <1>5, <1>7, <2>1 DEF CopyIsWhole
<1> QED BY <1>8, <1>9, <1>10, <1>11, <1>12 DEF LedgerInv

LEMMA PurgeRenameStep ==
  ASSUME LedgerInv, PurgeRename PROVE LedgerInv'
<1>0. LedgerType /\ OnlyAppended /\ TailIsOpen /\ ErasedIsGone /\ CopyIsWhole /\ LossIsPaid
      /\ QuietIsFresh
  BY DEF LedgerInv
<1> DEFINE n == inodes + 1
           c == [lines |-> purge.kept, tail |-> Nothing]
<1>1. /\ Rewriting /\ inodes < MaxInodes /\ inodes' = n /\ path' = n
      /\ disk' = [disk EXCEPT ![n] = c]
      /\ purge' = Idle /\ erased' = erased \cup purge.doomed
      /\ UNCHANGED <<writer, reader, appended, acked, raced, broken>>
  BY DEF PurgeRename, Rewriting
<1>2. purge.kept \in Seq(Line) /\ purge.doomed \in SUBSET Rec
  <2>1. purge # [pc |-> "remove"]
    BY <1>1 DEF Rewriting
  <2>2. purge \in [pc : {"rewrite"}, kept : Seq(Line), doomed : SUBSET Rec]
    BY <1>0, <1>1, <2>1 DEF LedgerType, Rewriting
  <2> QED BY <2>2
<1>3. /\ n \in 1..MaxInodes /\ inodes \in 1..MaxInodes /\ n \notin 1..inodes /\ n # Absent
      /\ 1..inodes \subseteq 1..n /\ 1..inodes \subseteq 1..MaxInodes /\ MaxInodes \in Nat
      /\ n \in 0..n /\ \A k \in 1..MaxInodes : k > n => k > inodes /\ k # n
  BY <1>0, <1>1, CurrentIs DEF LedgerType, Absent
<1>4. c \in FileContent /\ c.tail = Nothing /\ In(c) = Range(purge.kept) \cap Rec
  <2>1. c \in FileContent /\ c.tail = Nothing /\ c.lines = purge.kept
    BY <1>2, Shapes DEF FileContent
  <2> QED BY <2>1, LinesAre, Shapes
<1> HIDE DEF c, n
<1>5. disk'[n] = c /\ \A k \in 1..MaxInodes : k # n => disk'[k] = disk[k]
  BY <1>0, <1>1, <1>3 DEF LedgerType
<1>6. \A k \in 1..inodes : k # n /\ disk'[k] = disk[k]
  BY <1>3, <1>5
<1>7. /\ writer # Idle => writer.inode \in 1..inodes
      /\ reader # Idle => reader.inode \in 1..inodes
  BY <1>0 DEF LedgerType
<1>8. Current' = c
  BY <1>1, <1>3, <1>5 DEF Current
<1>9. acked \subseteq Rec
  BY <1>0 DEF LedgerType
<1>10. LedgerType'
  <2>1. disk' \in [1..MaxInodes -> FileContent]
    BY <1>0, <1>1, <1>4 DEF LedgerType
  <2>2. writer' = Idle \/ writer' \in [pc : {"open"}, rec : Rec, inode : 1..n, done : 0..2]
    BY <1>0, <1>1, <1>3 DEF LedgerType
  <2>3. reader' = Idle \/ reader' \in [pc : {"scan"}, inode : 1..n, clean : BOOLEAN, quiet : BOOLEAN]
    BY <1>0, <1>1, <1>3 DEF LedgerType
  <2>4. erased' \in SUBSET appended
    BY <1>0, <1>1 DEF LedgerType, OnlyAppended
  <2>5. \A k \in 1..MaxInodes : k > n => disk'[k] = Empty
    BY <1>0, <1>3, <1>5 DEF LedgerType
  <2> QED BY <1>0, <1>1, <1>3, <2>1, <2>2, <2>3, <2>4, <2>5 DEF LedgerType
<1>11. OnlyAppended'
  <2>1. ~Begun(c.tail)
    BY <1>4, Shapes DEF Begun
  <2>2. In(c) \subseteq appended
    BY <1>0, <1>1, <1>4 DEF OnlyAppended
  <2>3. \A k \in 1..MaxInodes :
          In(disk'[k]) \subseteq appended /\ (Begun(disk'[k].tail) => disk'[k].tail.rec \in appended)
    BY <1>0, <1>5, <2>1, <2>2 DEF OnlyAppended
  <2> QED BY <1>0, <1>1, <2>3 DEF OnlyAppended, Writing, Rewriting
<1>12. TailIsOpen'
  <2>1. ~Begun(disk'[path'].tail)
    BY <1>1, <1>4, <1>5, Shapes DEF Begun
  <2> QED BY <1>0, <1>1, <1>6, <1>7, <2>1 DEF TailIsOpen, Writing
<1>13. ErasedIsGone'
  <2>1. erased' \cap In(disk'[path']) = {}
    BY <1>0, <1>1, <1>4, <1>5 DEF ErasedIsGone
  <2> QED BY <1>1, <1>6, <1>7, <2>1 DEF ErasedIsGone, Writing, Rewriting
<1>14. CopyIsWhole'
  BY <1>1 DEF CopyIsWhole, Rewriting
<1>15. LossIsPaid'
  <2>1. Lost' \subseteq Lost
    <3> SUFFICES ASSUME NEW x \in Lost' PROVE x \in Lost
      OBVIOUS
    <3>1. x \in acked /\ x \notin erased /\ x \notin purge.doomed /\ x \notin raced
          /\ x \notin In(c) /\ x \in Rec
      BY <1>1, <1>8, <1>9 DEF Lost
    <3>2. x \notin Range(purge.kept)
      BY <1>4, <3>1
    <3>3. x \notin In(Current)
      BY <1>0, <1>1, <3>1, <3>2 DEF CopyIsWhole
    <3> QED BY <3>1, <3>3 DEF Lost
  <2>2. ~Stump'
    BY <1>1, <1>4, <1>5 DEF Stump
  <2>3. broken \in Nat
    BY <1>0 DEF LedgerType
  <2> QED BY <1>0, <1>1, <1>10, <2>1, <2>2, <2>3, NoMoreLost DEF LossIsPaid
<1>16. QuietIsFresh'
  BY <1>0, <1>1, <1>6, <1>7 DEF QuietIsFresh
<1> QED BY <1>10, <1>11, <1>12, <1>13, <1>14, <1>15, <1>16 DEF LedgerInv

LEMMA PurgeWaitsStep ==
  ASSUME LedgerInv, PurgeFails \/ PurgeStat PROVE LedgerInv'
<1>0. LedgerType /\ OnlyAppended /\ TailIsOpen /\ ErasedIsGone /\ CopyIsWhole /\ LossIsPaid
      /\ QuietIsFresh
  BY DEF LedgerInv
<1>1. /\ purge' = Idle \/ purge' = [pc |-> "remove"]
      /\ UNCHANGED <<disk, path, inodes, writer, reader, appended, acked, raced, broken, erased>>
  BY DEF PurgeFails, PurgeStat, history
<1>2. ~Rewriting' /\ Current' = Current
  BY <1>1 DEF Rewriting, Current
<1>3. LedgerType'
  BY <1>0, <1>1 DEF LedgerType
<1>4. OnlyAppended' /\ ErasedIsGone' /\ CopyIsWhole'
  BY <1>0, <1>1, <1>2 DEF OnlyAppended, ErasedIsGone, CopyIsWhole, Writing
<1>5. TailIsOpen' /\ LossIsPaid' /\ QuietIsFresh'
  BY <1>0, <1>1, <1>2 DEF TailIsOpen, LossIsPaid, QuietIsFresh, Lost, Stump, Mine, Writing
<1> QED BY <1>3, <1>4, <1>5 DEF LedgerInv

LEMMA PurgeRemoveStep ==
  ASSUME LedgerInv, PurgeRemove PROVE LedgerInv'
<1>0. LedgerType /\ OnlyAppended /\ TailIsOpen /\ ErasedIsGone /\ CopyIsWhole /\ LossIsPaid
      /\ QuietIsFresh
  BY DEF LedgerInv
<1>1. /\ path' = Absent /\ purge' = Idle
      /\ erased' = erased \cup In(Current)
      /\ UNCHANGED <<disk, inodes, writer, reader, appended, acked, raced, broken>>
  <2>1. {r \in Rec : r \in Range(Lines(Current))} = In(Current)
    BY DEF In
  <2> QED BY <2>1 DEF PurgeRemove
<1>2. In(Current) \subseteq appended
  BY <1>0, CurrentIs DEF OnlyAppended
<1>3. ~Rewriting' /\ Current' = Empty /\ In(Empty) = {}
  BY <1>1, EmptyIs DEF Rewriting, Current
<1>4. LedgerType'
  <2>1. path' \in 0..inodes
    BY <1>0, <1>1 DEF LedgerType, Absent
  <2>2. erased' \in SUBSET appended
    BY <1>0, <1>1, <1>2 DEF LedgerType
  <2> QED BY <1>0, <1>1, <2>1, <2>2 DEF LedgerType
<1>5. OnlyAppended' /\ CopyIsWhole' /\ QuietIsFresh'
  BY <1>0, <1>1, <1>3 DEF OnlyAppended, CopyIsWhole, QuietIsFresh, Writing
<1>6. TailIsOpen'
  BY <1>0, <1>1 DEF TailIsOpen, Writing
<1>7. ErasedIsGone'
  <2>1. writer # Idle => writer.inode # Absent
    BY <1>0 DEF LedgerType, Absent
  <2> QED BY <1>1, <1>3, <2>1 DEF ErasedIsGone, Writing
<1>8. LossIsPaid'
  <2>1. Lost' \subseteq Lost
    BY <1>1 DEF Lost
  <2>2. ~Stump'
    BY <1>1 DEF Stump
  <2>3. broken \in Nat
    BY <1>0 DEF LedgerType
  <2> QED BY <1>0, <1>1, <1>4, <2>1, <2>2, <2>3, NoMoreLost DEF LossIsPaid
<1> QED BY <1>4, <1>5, <1>6, <1>7, <1>8 DEF LedgerInv

LEMMA LedgerStep == LedgerInv /\ [Next]_vars => LedgerInv'
<1> SUFFICES ASSUME LedgerInv, [Next]_vars PROVE LedgerInv'
  OBVIOUS
<1>1. CASE \E r \in Rec : Open(r)
  BY <1>1, OpenStep
<1>2. CASE \E done \in 1..3 : Write(done)
  BY <1>2, WriteStep
<1>3. CASE Interrupted
  BY <1>3, InterruptedStep
<1>4. CASE endsWithNewline \/ Return
  BY <1>4, ReaderStep
<1>5. CASE \E r \in Rec \cup Old : PurgeRead(SessionOf[r])
  <2>1. PICK r \in Rec \cup Old : PurgeRead(SessionOf[r])
    BY <1>5
  <2> QED BY <2>1, PurgeReadStep
<1>6. CASE PurgeRename
  BY <1>6, PurgeRenameStep
<1>7. CASE PurgeFails \/ PurgeStat
  BY <1>7, PurgeWaitsStep
<1>8. CASE PurgeRemove
  BY <1>8, PurgeRemoveStep
<1>9. CASE UNCHANGED vars
  BY <1>9 DEF vars, LedgerInv, LedgerType, OnlyAppended, TailIsOpen, ErasedIsGone, CopyIsWhole,
     LossIsPaid, QuietIsFresh, Lost, Stump, Mine, Current, Writing, Rewriting
<1> QED BY <1>1, <1>2, <1>3, <1>4, <1>5, <1>6, <1>7, <1>8, <1>9 DEF Next

\* What a scan reports of a file, given what the reader was told of its end.
LEMMA ScanIs ==
  ASSUME NEW c \in FileContent, NEW clean \in BOOLEAN
  PROVE  /\ Scan(c, clean).records = Readable(c)
         /\ Len(Only(c.lines, {Junk})) \in Nat
         /\ Scan(c, clean).skipped \in
              (Len(Only(c.lines, {Junk})) - 1)..(Len(Only(c.lines, {Junk})) + 1)
         /\ Scan(c, clean).schemaMismatch >= 0
         /\ (clean <=> c.tail = Nothing) =>
              /\ Scan(c, clean).skipped = Len(Only(c.lines, {Junk}))
              /\ Scan(c, clean).incomplete <=> (c.tail # Nothing /\ ~IsWhole(c.tail))
<1> DEFINE all == Lines(c)
           last == all[Len(all)]
           torn == all # <<>> /\ last \notin Rec /\ ~clean
           junk == Len(Only(all, {Junk}))
           old == Len(Only(all, Old))
           lost == Len(Only(c.lines, {Junk}))
           end == IF IsWhole(c.tail) THEN c.tail.rec ELSE Junk
           res == Scan(c, clean)
<1>1. res = [records |-> Readable(c),
             skipped |-> junk - (IF torn /\ last = Junk THEN 1 ELSE 0),
             schemaMismatch |-> old - (IF torn /\ last \in Old THEN 1 ELSE 0),
             incomplete |-> torn]
  BY DEF Scan
<1>2. /\ all \in Seq(Line) /\ c.lines \in Seq(Line) /\ c.tail \in Tails
      /\ junk \in Nat /\ old \in Nat /\ lost \in Nat
      /\ Range(Only(all, Old)) = Range(all) \cap Old /\ Only(all, Old) \in Seq(Line)
      /\ Only(c.lines, {Junk}) \in Seq(Line)
  BY LinesAre, OnlyType
<1>3. all = IF c.tail = Nothing THEN c.lines ELSE Append(c.lines, end)
  BY DEF Lines
<1>4. /\ Junk \notin Rec /\ end \in Line /\ (IsWhole(c.tail) => end \in Rec)
      /\ (~IsWhole(c.tail) => end = Junk)
  BY <1>2, Shapes, LedgerAssumption DEF Junk, Line, IsWhole
<1>5. Only(Append(c.lines, end), {Junk})
        = IF end = Junk THEN Append(Only(c.lines, {Junk}), end) ELSE Only(c.lines, {Junk})
  <2>1. ASSUME NEW x \in Line
        PROVE  Only(Append(c.lines, x), {Junk})
                 = IF x \in {Junk} THEN Append(Only(c.lines, {Junk}), x) ELSE Only(c.lines, {Junk})
    BY <1>2, OnlyAppend
  <2> HIDE DEF end
  <2> QED BY <1>4, <2>1
<1>6. ASSUME all # <<>>, last \in Old PROVE old >= 1
  <2>1. last \in Range(all)
    BY <1>2, <1>6 DEF Range
  <2>2. Range(Only(all, Old)) # {}
    BY <1>2, <1>6, <2>1
  <2>3. Only(all, Old) # <<>>
    BY <2>2 DEF Range
  <2> HIDE DEF all
  <2> QED BY <1>2, <2>3
<1>7. (res.incomplete <=> torn) /\ res.records = Readable(c)
      /\ res.skipped = junk - (IF torn /\ last = Junk THEN 1 ELSE 0)
      /\ res.schemaMismatch = old - (IF torn /\ last \in Old THEN 1 ELSE 0)
  <2> DEFINE a == junk - (IF torn /\ last = Junk THEN 1 ELSE 0)
             b == old - (IF torn /\ last \in Old THEN 1 ELSE 0)
  <2>1. res = [records |-> Readable(c), skipped |-> a, schemaMismatch |-> b, incomplete |-> torn]
    BY <1>1
  <2> HIDE DEF res, torn, a, b
  <2>2. res.incomplete = torn /\ res.records = Readable(c) /\ res.skipped = a /\ res.schemaMismatch = b
    BY <2>1, Zenon
  <2>3. res.incomplete <=> torn
    BY <2>2, Zenon
  <2> QED BY <2>2, <2>3, Zenon DEF a, b
<1>8. torn => all # <<>> /\ last \notin Rec /\ ~clean
  OBVIOUS
<1>9. res.schemaMismatch >= 0
  <2> HIDE DEF res, old, last, all
  <2>1. CASE torn /\ last \in Old
    BY <1>2, <1>6, <1>7, <2>1
  <2>2. CASE ~(torn /\ last \in Old)
    BY <1>2, <1>7, <2>2
  <2> QED BY <2>1, <2>2
<1>10. CASE c.tail = Nothing
  <2>1. junk = lost
    BY <1>3, <1>10
  <2>2. ~IsWhole(c.tail)
    BY <1>10, Shapes DEF IsWhole
  <2> HIDE DEF res, junk, lost, all, last
  <2> QED BY <1>2, <1>7, <1>8, <1>9, <1>10, <2>1, <2>2 DEF res, lost
<1>11. CASE c.tail # Nothing
  <2>1. all = Append(c.lines, end)
    BY <1>3, <1>11
  <2>a. ASSUME NEW q \in Seq(Line), NEW x \in Line
        PROVE  /\ Append(q, x) # <<>> /\ Len(Append(q, x)) = Len(q) + 1
               /\ Append(q, x)[Len(Append(q, x))] = x
    OBVIOUS
  <2>2. all # <<>> /\ last = end
    <3> HIDE DEF all, end
    <3> QED BY <1>2, <1>4, <2>1, <2>a
  <2>3. junk = IF end = Junk THEN lost + 1 ELSE lost
    <3> HIDE DEF all, end
    <3>1. Only(all, {Junk}) = IF end = Junk THEN Append(Only(c.lines, {Junk}), end)
                              ELSE Only(c.lines, {Junk})
      BY <1>5, <2>1
    <3> QED BY <1>2, <1>4, <2>a, <3>1
  <2>4. torn <=> ~clean /\ end \notin Rec
    BY <2>2
  <2>5. (end = Junk <=> ~IsWhole(c.tail)) /\ (end \in Rec <=> IsWhole(c.tail))
    BY <1>4
  <2> HIDE DEF res, junk, lost, all, last, end, torn
  <2> QED BY <1>2, <1>7, <1>9, <1>11, <2>2, <2>3, <2>4, <2>5 DEF res, lost
<1> QED BY <1>10, <1>11

LEMMA LedgerGives == LedgerInv => LedgerKeepsItsWord
<1> SUFFICES ASSUME LedgerInv PROVE LedgerKeepsItsWord
  OBVIOUS
<1>0. LedgerType /\ OnlyAppended /\ ErasedIsGone /\ LossIsPaid /\ QuietIsFresh
  BY DEF LedgerInv
<1>1. /\ Current \in FileContent /\ MaxInodes \in Nat /\ inodes \in 1..MaxInodes /\ path \in 0..inodes
      /\ \A i \in 1..MaxInodes : disk[i] \in FileContent
      /\ 1..inodes \subseteq 1..MaxInodes
      /\ path = Absent => In(Current) = {}
      /\ path # Absent => Current = disk[path]
  BY <1>0, CurrentIs DEF LedgerType
<1>2. Range(Readable(Current)) = In(Current)
  BY <1>1, LinesAre
<1>3. TypeOK
  <2>1. ASSUME NEW s \in Seq(Line) PROVE Range(s) \subseteq Line
    BY DEF Range
  <2>2. ASSUME NEW i \in 1..MaxInodes
        PROVE  Range(disk[i].lines) \subseteq Line /\ disk[i].tail \in Tails
    BY <1>1, <2>1 DEF FileContent
  <2>3. path \in 0..MaxInodes
    BY <1>1
  <2> QED BY <1>0, <1>1, <2>2, <2>3 DEF TypeOK, LedgerType, Line, Tails
<1>4. LossBounded
  <2>1. Lost = {r \in acked \ (erased \cup raced) : r \notin Range(Readable(Current))}
    BY <1>2 DEF Lost
  <2>2. Cardinality(Lost) \in Nat /\ broken \in Nat
    BY <1>0, CurrentIs, FS_CardinalityType DEF LedgerType
  <2>3. Cardinality(Lost) <= broken
    BY <1>0, <2>2 DEF LossIsPaid
  <2> QED BY <1>3, <2>1, <2>3 DEF LossBounded
<1>5. ErasureHolds
  BY <1>0, <1>1, <1>2 DEF ErasureHolds, ErasedIsGone
<1>6. ReadIsHonest
  <2> SUFFICES ASSUME reader # Idle PROVE ReadIsHonest
    BY DEF ReadIsHonest
  <2> DEFINE c == disk[reader.inode]
             lost == Len(Only(c.lines, {Junk}))
             unfinished == c.tail # Nothing /\ ~IsWhole(c.tail)
  <2>1. reader \in [pc : {"scan"}, inode : 1..inodes, clean : BOOLEAN, quiet : BOOLEAN]
    BY <1>0 DEF LedgerType
  <2>2. reader.inode \in 1..MaxInodes /\ reader.clean \in BOOLEAN /\ c \in FileContent
    BY <1>1, <2>1
  <2>3. /\ Result.records = Readable(c)
        /\ Result.skipped \in (lost - 1)..(lost + 1)
        /\ Result.schemaMismatch >= 0
        /\ (reader.clean <=> c.tail = Nothing) =>
             Result.skipped = lost /\ (Result.incomplete <=> unfinished)
    BY <2>2, ScanIs DEF Result
  <2>4. Result.incomplete \in BOOLEAN
    BY DEF Result, Scan
  <2>5. reader.quiet => (reader.clean <=> c.tail = Nothing)
    BY <1>0 DEF QuietIsFresh
  <2>6. Range(Result.records) \subseteq appended
    BY <1>0, <2>2, <2>3, LinesAre DEF OnlyAppended
  <2>7. reader.quiet => Result.skipped = lost /\ Result.incomplete = unfinished
    BY <2>3, <2>4, <2>5, Zenon
  <2> HIDE DEF c, lost, unfinished
  <2> QED BY <2>3, <2>6, <2>7 DEF ReadIsHonest, c, lost, unfinished
<1> QED BY <1>4, <1>5, <1>6 DEF LedgerKeepsItsWord

\* In every behaviour of the ledger file an interrupted write costs at most the
\* next acknowledged record, a purged record is never read again and a read
\* reports what it could not use, for any records, sessions and number of files.
THEOREM LedgerAlwaysKeepsItsWord == Spec => []LedgerKeepsItsWord
<1>1. LedgerInv /\ [Next]_vars => LedgerInv'
  BY LedgerStep
<1> QED BY <1>1, LedgerInit, LedgerGives, PTL DEF Spec

-----------------------------------------------------------------------------
(* The file is a log. *)

LEMMA SameOnly == ASSUME NEW s, NEW S PROVE L!Only(s, S) = Only(s, S)
  BY DEF L!Only, Only

LEMMA DropLast ==
  ASSUME NEW q \in Seq(Line), NEW x \in Line
  PROVE  SubSeq(Append(q, x), 1, Len(Append(q, x)) - 1) = q
  OBVIOUS

\* A reader obtains the records of the whole lines, and one more from a last
\* line that lacks nothing but its end.
LEMMA ReadableIs ==
  ASSUME NEW c \in FileContent
  PROVE  /\ Only(c.lines, Rec) \in Seq(Line)
         /\ c.tail.kind = "open" => Readable(c) = Append(Only(c.lines, Rec), c.tail.rec)
                                    /\ c.tail.rec \in Rec
         /\ c.tail.kind # "open" => Readable(c) = Only(c.lines, Rec)
<1>1. c.lines \in Seq(Line) /\ c.tail \in Tails /\ Only(c.lines, Rec) \in Seq(Line)
  BY LinesAre, OnlyType
<1>2. Junk \in Line /\ Junk \notin Rec
  BY LedgerAssumption DEF Line, Junk
<1>3. ASSUME NEW x \in Line
      PROVE  Only(Append(c.lines, x), Rec)
               = IF x \in Rec THEN Append(Only(c.lines, Rec), x) ELSE Only(c.lines, Rec)
  BY <1>1, OnlyAppend
<1>4. CASE c.tail = Nothing
  BY <1>1, <1>4, Shapes DEF Readable, Lines
<1>5. CASE c.tail.kind = "open"
  <2>1. c.tail # Nothing /\ c.tail.rec \in Rec /\ c.tail.rec \in Line
    BY <1>1, <1>5, Shapes DEF Line
  <2>2. Lines(c) = Append(c.lines, c.tail.rec)
    BY <1>5, <2>1 DEF Lines, IsWhole
  <2> QED BY <1>1, <1>3, <1>5, <2>1, <2>2 DEF Readable
<1>6. CASE c.tail # Nothing /\ c.tail.kind # "open"
  <2>1. Lines(c) = Append(c.lines, Junk)
    BY <1>6 DEF Lines, IsWhole
  <2> QED BY <1>1, <1>2, <1>3, <1>6, <2>1 DEF Readable
<1> QED BY <1>4, <1>5, <1>6

\* What a write does to the records a reader obtains.
LEMMA WrittenReads ==
  ASSUME NEW c \in FileContent, NEW r \in Rec, NEW done \in 1..3,
         done = 1 => c.tail \notin {Partial(r), Whole(r)}
  PROVE  LET w == Written(c, r, done) IN
         \/ /\ c.tail.kind = "clean" /\ w.tail.kind = "partial" /\ Readable(w) = Readable(c)
         \/ /\ c.tail.kind \in {"clean", "partial"} /\ w.tail.kind \in {"open", "clean"}
            /\ Readable(w) = Append(Readable(c), r)
         \/ /\ c.tail.kind = "open" /\ w.tail.kind \in {"open", "clean"}
            /\ Readable(w) = Readable(c)
         \/ /\ c.tail.kind \in {"partial", "open", "spoiled"} /\ w.tail.kind \in {"spoiled", "clean"}
            /\ Readable(w) = IF c.tail.kind = "open"
                             THEN SubSeq(Readable(c), 1, Len(Readable(c)) - 1) ELSE Readable(c)
<1> DEFINE w == Written(c, r, done)
           q == Only(c.lines, Rec)
           mine == IsMine(c, r)
           end == IF mine THEN r ELSE Junk
<1>1. c.lines \in Seq(Line) /\ c.tail \in Tails /\ c = [lines |-> c.lines, tail |-> c.tail]
  BY DEF FileContent
<1>2. /\ q \in Seq(Line)
      /\ c.tail.kind = "open" => Readable(c) = Append(q, c.tail.rec) /\ c.tail.rec \in Rec
      /\ c.tail.kind # "open" => Readable(c) = q
  BY ReadableIs
<1>3. w \in FileContent
  BY WrittenIs
<1>4. Rec \subseteq Line /\ Junk \in Line /\ Junk \notin Rec
  BY LedgerAssumption DEF Line, Junk
<1>5. ASSUME NEW x \in Line
      PROVE  Only(Append(c.lines, x), Rec)
               = IF x \in Rec THEN Append(q, x) ELSE q
  BY <1>1, OnlyAppend
<1>6. c.tail.kind = "open" => SubSeq(Readable(c), 1, Len(Readable(c)) - 1) = q
  BY <1>2, <1>4, DropLast
<1>7. c.tail.kind \in {"clean", "spoiled", "partial", "open"}
  BY <1>1, Shapes
<1>8. mine => /\ c.tail.kind \in {"clean", "partial", "open"}
              /\ c.tail.kind = "open" => c.tail.rec = r
              /\ done = 1 => c.tail.kind = "clean"
  BY Shapes DEF IsMine
<1>9. ~mine => c.tail.kind # "clean"
  BY <1>1, Shapes DEF IsMine
<1>10. CASE done = 3
  <2>1. w = [lines |-> Append(c.lines, end), tail |-> Nothing]
    BY <1>10 DEF Written, IsMine
  <2>2. w.lines = Append(c.lines, end) /\ w.tail.kind = "clean"
    BY <2>1, Shapes
  <2> HIDE DEF w
  <2>3. Readable(w) = Only(w.lines, Rec)
    BY <1>3, <2>2, ReadableIs
  <2>4. Readable(w) = IF mine THEN Append(q, r) ELSE q
    BY <1>4, <1>5, <2>2, <2>3
  <2> HIDE DEF mine, q
  <2> QED BY <1>2, <1>6, <1>7, <1>8, <1>9, <2>2, <2>4 DEF w
<1>11. CASE done # 3
  <2> DEFINE tl == IF ~mine THEN Spoiled ELSE IF done = 1 THEN Partial(r) ELSE Whole(r)
  <2>1. w = [c EXCEPT !.tail = tl]
    BY <1>11 DEF Written, IsMine
  <2>2. w.lines = c.lines /\ w.tail = tl
    BY <1>1, <2>1
  <2>3. /\ ~mine => tl.kind = "spoiled"
        /\ mine /\ done = 1 => tl.kind = "partial"
        /\ mine /\ done # 1 => tl.kind = "open" /\ tl.rec = r
    BY Shapes
  <2> HIDE DEF w, tl
  <2>4. Readable(w) = IF tl.kind = "open" THEN Append(q, tl.rec) ELSE q
    BY <1>3, <2>2, ReadableIs
  <2> HIDE DEF mine, q
  <2> QED BY <1>2, <1>6, <1>7, <1>8, <1>9, <2>2, <2>3, <2>4 DEF w
<1> QED BY <1>10, <1>11

\* The file a reader opens is not touched by Open, and by Write only where the
\* writer's inode is still the one the name points to.
LEMMA OpenLeaves ==
  ASSUME LedgerInv, NEW r \in Rec, Open(r) PROVE Current' = Current
<1>0. LedgerType
  BY DEF LedgerInv
<1>1. disk' = disk /\ (path = Absent => inodes < MaxInodes)
  BY DEF Open
<1>2. inodes \in 1..MaxInodes /\ path \in 0..inodes /\ MaxInodes \in Nat
  BY <1>0, CurrentIs DEF LedgerType
<1>3. CASE path = Absent
  <2>1. path' = inodes + 1 /\ path' # Absent /\ path' \in 1..MaxInodes /\ path' > inodes
    BY <1>1, <1>2, <1>3 DEF Open, Absent
  <2>2. disk[path'] = Empty
    BY <1>0, <2>1 DEF LedgerType
  <2> QED BY <1>1, <1>3, <2>1, <2>2 DEF Current
<1>4. CASE path # Absent
  BY <1>1, <1>4 DEF Open, Current
<1> QED BY <1>3, <1>4

LEMMA WriteLogs ==
  ASSUME LedgerInv, NEW done \in 1..3, Write(done) PROVE [L!Next]_(L!vars)
<1>0. LedgerType /\ TailIsOpen
  BY DEF LedgerInv
<1> DEFINE i == writer.inode
           r == writer.rec
           c == disk[i]
           w == Written(c, r, done)
<1>1. /\ Writing /\ r \in Rec /\ i \in 1..MaxInodes /\ c \in FileContent /\ writer.done \in 0..2
      /\ disk' = [disk EXCEPT ![i] = w]
      /\ path' = path /\ purge' = purge
  BY <1>0, WriteIs
<1>2. writer.done < done
  BY DEF Write
<1>3. draftNow' = draftNow
  BY <1>1 DEF draftNow
<1> HIDE DEF w
<1>4. Current' = IF path = i THEN w ELSE Current
  <2>1. i # Absent
    BY <1>1 DEF Absent
  <2>2. disk'[i] = w /\ \A k \in 1..MaxInodes : k # i => disk'[k] = disk[k]
    BY <1>0, <1>1 DEF LedgerType
  <2> QED BY <1>0, <1>1, <2>1, <2>2, CurrentIs DEF Current
<1>5. CASE path # i
  BY <1>3, <1>4, <1>5 DEF L!vars
<1>6. CASE path = i
  <2>1. Current = c /\ Current' = w
    BY <1>0, <1>1, <1>4, <1>6, CurrentIs DEF Absent
  <2>2. done = 1 => c.tail \notin {Partial(r), Whole(r)}
    BY <1>0, <1>1, <1>2 DEF TailIsOpen
  <2>3. \/ /\ c.tail.kind = "clean" /\ w.tail.kind = "partial" /\ Readable(w) = Readable(c)
        \/ /\ c.tail.kind \in {"clean", "partial"} /\ w.tail.kind \in {"open", "clean"}
           /\ Readable(w) = Append(Readable(c), r)
        \/ /\ c.tail.kind = "open" /\ w.tail.kind \in {"open", "clean"}
           /\ Readable(w) = Readable(c)
        \/ /\ c.tail.kind \in {"partial", "open", "spoiled"} /\ w.tail.kind \in {"spoiled", "clean"}
           /\ Readable(w) = IF c.tail.kind = "open"
                            THEN SubSeq(Readable(c), 1, Len(Readable(c)) - 1) ELSE Readable(c)
    BY <1>1, <2>2, WrittenReads DEF w
  <2> HIDE DEF c
  <2>4. CASE c.tail.kind = "clean" /\ w.tail.kind = "partial" /\ Readable(w) = Readable(c)
    BY <1>3, <2>1, <2>4 DEF L!Next, L!Begin
  <2>5. CASE /\ c.tail.kind \in {"clean", "partial"} /\ w.tail.kind \in {"open", "clean"}
             /\ Readable(w) = Append(Readable(c), r)
    <3>1. L!Land(r)
      BY <1>3, <2>1, <2>5 DEF L!Land
    <3> QED BY <1>1, <3>1 DEF L!Next
  <2>6. CASE /\ c.tail.kind = "open" /\ w.tail.kind \in {"open", "clean"}
             /\ Readable(w) = Readable(c)
    <3>1. CASE w.tail.kind = "open"
      BY <1>3, <2>1, <2>6, <3>1 DEF L!vars
    <3>2. CASE w.tail.kind = "clean"
      BY <1>3, <2>1, <2>6, <3>2 DEF L!Next, L!Finish
    <3> QED BY <2>6, <3>1, <3>2
  <2>7. CASE /\ c.tail.kind \in {"partial", "open", "spoiled"} /\ w.tail.kind \in {"spoiled", "clean"}
             /\ Readable(w) = IF c.tail.kind = "open"
                              THEN SubSeq(Readable(c), 1, Len(Readable(c)) - 1) ELSE Readable(c)
    BY <1>3, <2>1, <2>7 DEF L!Next, L!Spoil
  <2> QED BY <2>3, <2>4, <2>5, <2>6, <2>7
<1> QED BY <1>5, <1>6

LEMMA PurgeLogs ==
  ASSUME LedgerInv, NEW r \in Rec \cup Old, PurgeRead(SessionOf[r]) PROVE [L!Next]_(L!vars)
<1> DEFINE s == SessionOf[r]
           all == Lines(Current)
<1>0. Current \in FileContent
  BY CurrentIs DEF LedgerInv
<1>1. /\ purge = Idle /\ disk' = disk /\ path' = path
      /\ purge'.pc = "rewrite" /\ purge'.kept = Only(all, Others(s))
  BY DEF PurgeRead, Kept
<1>2. Current' = Current
  BY <1>1 DEF Current
<1>3. purge' # Idle
  BY <1>1, Shapes
<1>4. draftNow = {} /\ draftNow' = {Only(Only(all, Others(s)), Rec)}
  BY <1>1, <1>3 DEF draftNow
<1>5. all \in Seq(Line)
  BY <1>0, LinesAre
<1>6. Others(s) \cap Rec = Rec \cap {x \in Rec : SessionOf[x] # s}
  <2>1. Junk \notin Rec
    BY LedgerAssumption DEF Junk
  <2> QED BY <2>1 DEF Others
<1>7. Only(Only(all, Others(s)), Rec) = L!Without(s, Readable(Current))
  <2>1. Only(Only(all, Others(s)), Rec) = Only(all, Others(s) \cap Rec)
    BY <1>5, OnlyOnly
  <2>2. Only(Only(all, Rec), {x \in Rec : SessionOf[x] # s})
          = Only(all, Rec \cap {x \in Rec : SessionOf[x] # s})
    BY <1>5, OnlyOnly
  <2>3. L!Without(s, Readable(Current)) = Only(Only(all, Rec), {x \in Rec : SessionOf[x] # s})
    BY SameOnly DEF L!Without, Readable
  <2> QED BY <1>6, <2>1, <2>2, <2>3
<1> HIDE DEF all
<1>8. L!Copy(SessionOf[r])
  BY <1>2, <1>4, <1>7 DEF L!Copy
<1> QED BY <1>8 DEF L!Next

LEMMA RenameLogs ==
  ASSUME LedgerInv, PurgeRename PROVE L!Next
<1> DEFINE n == inodes + 1
           c == [lines |-> purge.kept, tail |-> Nothing]
<1>0. LedgerType
  BY DEF LedgerInv
<1>1. /\ Rewriting /\ inodes < MaxInodes /\ path' = n
      /\ disk' = [disk EXCEPT ![n] = c] /\ purge' = Idle
  BY DEF PurgeRename, Rewriting
<1>2. n \in 1..MaxInodes /\ n # Absent
  BY <1>0, <1>1, CurrentIs DEF LedgerType, Absent
<1>3. disk'[n] = c
  BY <1>0, <1>1, <1>2 DEF LedgerType
<1> HIDE DEF c, n
<1>4. Current' = c
  BY <1>1, <1>2, <1>3 DEF Current
<1>5. c.tail = Nothing /\ c.lines = purge.kept /\ Lines(c) = c.lines /\ c.tail.kind = "clean"
  BY Shapes DEF c, Lines
<1>6. Readable(c) = Only(purge.kept, Rec)
  BY <1>5 DEF Readable
<1>7. draftNow = {Only(purge.kept, Rec)} /\ draftNow' = {}
  BY <1>1 DEF draftNow, Rewriting
<1>8. L!Replace
  BY <1>4, <1>5, <1>6, <1>7 DEF L!Replace
<1> QED BY <1>8 DEF L!Next

LEMMA LogInit == Init => L!Init
<1> SUFFICES ASSUME Init PROVE L!Init
  OBVIOUS
<1>1. PICK first \in {<<>>} \cup {<<r>> : r \in Old} :
        disk = [i \in 1..MaxInodes |-> IF i = 1 THEN [Empty EXCEPT !.lines = first] ELSE Empty]
  BY DEF Init
<1>2. [Empty EXCEPT !.lines = first] = [lines |-> first, tail |-> Nothing]
  BY DEF Empty
<1>3. 1 \in 1..MaxInodes /\ path = 1 /\ path # Absent /\ purge = Idle
  BY LedgerAssumption DEF Init, Absent
<1>4. Current = [lines |-> first, tail |-> Nothing]
  BY <1>1, <1>2, <1>3 DEF Current
<1>5. Current.tail = Nothing /\ Current.lines = first /\ Current.tail.kind = "clean"
  BY <1>4, Shapes
<1>6. Readable(Current) = Only(first, Rec)
  BY <1>5 DEF Readable, Lines
<1>7. Only(first, Rec) = <<>>
  <2>1. CASE first = <<>>
    BY <2>1, OnlyEmpty
  <2>2. CASE \E r \in Old : first = <<r>>
    <3>1. PICK r \in Old : first = <<r>>
      BY <2>2
    <3>2. r \in Line /\ r \notin Rec /\ <<>> \in Seq(Line)
      BY LedgerAssumption DEF Line
    <3>3. Only(Append(<<>>, r), Rec) = IF r \in Rec THEN Append(Only(<<>>, Rec), r) ELSE Only(<<>>, Rec)
      BY <3>2, OnlyAppend
    <3>4. Append(<<>>, r) = <<r>>
      OBVIOUS
    <3> QED BY <3>1, <3>2, <3>3, <3>4, OnlyEmpty
  <2> QED BY <2>1, <2>2
<1>8. draftNow = {}
  BY <1>3 DEF draftNow
<1> QED BY <1>5, <1>6, <1>7, <1>8 DEF L!Init

LEMMA LogStep == LedgerInv /\ [Next]_vars => [L!Next]_(L!vars)
<1> SUFFICES ASSUME LedgerInv, [Next]_vars PROVE [L!Next]_(L!vars)
  OBVIOUS
<1>1. CASE \E r \in Rec : Open(r)
  <2>1. PICK r \in Rec : Open(r)
    BY <1>1
  <2>2. Current' = Current
    BY <2>1, OpenLeaves
  <2>3. purge' = purge
    BY <2>1 DEF Open
  <2> QED BY <2>2, <2>3 DEF L!vars, draftNow
<1>2. CASE \E done \in 1..3 : Write(done)
  BY <1>2, WriteLogs
<1>3. CASE Interrupted \/ endsWithNewline \/ Return \/ UNCHANGED vars
  <2>1. disk' = disk /\ path' = path /\ purge' = purge
    BY <1>3 DEF Interrupted, endsWithNewline, Return, vars
  <2> QED BY <2>1 DEF L!vars, draftNow, Current
<1>4. CASE \E r \in Rec \cup Old : PurgeRead(SessionOf[r])
  BY <1>4, PurgeLogs
<1>5. CASE PurgeRename
  BY <1>5, RenameLogs
<1>6. CASE PurgeFails
  <2>1. disk' = disk /\ path' = path /\ purge # Idle /\ purge.pc = "rewrite" /\ purge' = Idle
    BY <1>6 DEF PurgeFails
  <2>2. Current' = Current /\ draftNow # {} /\ draftNow' = {}
    BY <2>1 DEF Current, draftNow
  <2> QED BY <2>2 DEF L!Next, L!GiveUp
<1>7. CASE PurgeStat
  <2>1. disk' = disk /\ path' = path /\ purge = Idle /\ purge' = [pc |-> "remove"]
    BY <1>7 DEF PurgeStat
  <2>2. Current' = Current /\ draftNow = {} /\ draftNow' = {}
    BY <2>1 DEF Current, draftNow
  <2> QED BY <2>2 DEF L!vars
<1>8. CASE PurgeRemove
  <2>1. path' = Absent /\ purge.pc = "remove" /\ purge' = Idle
    BY <1>8 DEF PurgeRemove
  <2>2. Current' = Empty /\ draftNow = {} /\ draftNow' = {}
    BY <2>1 DEF Current, draftNow
  <2>3. Readable(Empty) = <<>> /\ Empty.tail.kind = "clean"
    BY EmptyIs, OnlyEmpty, Shapes DEF Readable
  <2> QED BY <2>2, <2>3 DEF L!Next, L!Remove
<1> QED BY <1>1, <1>2, <1>3, <1>4, <1>5, <1>6, <1>7, <1>8 DEF Next

\* The file is a log: every step of an append, a restart, a purge or a reader
\* is a step of LedgerLog on the records a reader obtains, or none.
THEOREM FileIsALog == Spec => IsALog
<1>1. LedgerInv /\ [Next]_vars => LedgerInv'
  BY LedgerStep
<1> QED BY <1>1, LedgerInit, LogInit, LogStep, PTL DEF Spec, IsALog, L!Spec

=============================================================================
