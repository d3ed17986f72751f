----------------------------- MODULE MCCommands -----------------------------
(* Commands that run beside the proxy and work on files of its user: the      *)
(* session ledger with `replay purge`, a probe run, an upgrade, a change of   *)
(* the settings, and the terminal interface with its advice file.  They share *)
(* no state: `which` says which of them this behaviour is about, and the      *)
(* others keep one of their initial states.                                   *)
EXTENDS LedgerFile, ProbeSearch, Upgrade, Settings, Screen, TLC

\* The commands this run is about, and the records the user's ledger gets.
CONSTANTS Parts, r1, r2, r3, o1

VARIABLE which

\* Three records of two sessions that share a file, a file that may hold a line
\* of an earlier schema, and two rewrites or removals.
MCSessionOf == (r1 :> "a") @@ (r2 :> "b") @@ (r3 :> "a") @@ (o1 :> "b")

MCCandidates == <<4, 8>>

\* Two sessions, one of them without a transcript, and two findings that a run
\* of `replay advise` may suggest together or the second alone.
MCTasks == <<"t1", "t2">>
MCRankings == {<<"f1", "f2">>, <<"f2">>}

CommandsInit ==
    /\ which \in Parts
    /\ Init /\ (which # "ledger" => disk[path] = Empty)
    /\ SearchInit
    /\ which # "search" => /\ prior = 0 /\ block = 1 /\ floor = MaxSize
                           /\ \A b \in Budgets : budget <= b
    /\ UpgradeInit /\ (which # "update" => cosign)
    /\ SettingsInit /\ (which # "apply" => file = NoFile)
    /\ ScreenInit /\ (which # "surface" => onShow = "c" /\ advice = NoAdvice)

\* Records of one session are interchangeable: r1 is appended before r3.  A file
\* that began with a line of an earlier schema gets two of the three.
InOrder == r3 \in appended' => r1 \in appended /\ o1 \notin Range(disk[1].lines)

CommandsNext ==
    \/ /\ which = "ledger" /\ Next /\ InOrder
       /\ UNCHANGED <<which, searchVars, upgradeVars, settingsVars, screenVars>>
    \/ /\ which = "search" /\ SearchNext
       /\ UNCHANGED <<which, vars, upgradeVars, settingsVars, screenVars>>
    \/ /\ which = "update" /\ UpgradeNext
       /\ UNCHANGED <<which, vars, searchVars, settingsVars, screenVars>>
    \/ /\ which = "apply" /\ SettingsNext
       /\ UNCHANGED <<which, vars, searchVars, upgradeVars, screenVars>>
    \/ /\ which = "surface" /\ ScreenNext
       /\ UNCHANGED <<which, vars, searchVars, upgradeVars, settingsVars>>

CommandsSpec ==
    CommandsInit
    /\ [][CommandsNext]_<<which, vars, searchVars, upgradeVars, settingsVars, screenVars>>

-----------------------------------------------------------------------------
\* The bracket of a probe run contains a floor that stands still, no size is
\* paid for once it is confirmed, and a run that was stopped says so
\* (ProbeSearch's BracketHolds, NeverPaysTwice, EndIsQualified).
SearchIsSound ==
    which = "search" => SearchTypeOK /\ BracketHolds /\ NeverPaysTwice /\ EndIsQualified

=============================================================================
