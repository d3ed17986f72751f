------------------------------ MODULE Settings ------------------------------
(***************************************************************************)
(* replay ... --apply --yes (applyPlan.apply and record in                 *)
(* cmd/replay/apply.go): one key of the user's settings file is changed.   *)
(* The plan was made from an earlier reading of the file; the file is read *)
(* again, copied to a backup named for the second, rewritten in place and  *)
(* read back, and what happened is appended to a log.  The file belongs to *)
(* another program, which may write it at any moment, and the command may  *)
(* be killed between any two steps.                                        *)
(***************************************************************************)
EXTENDS Integers

CONSTANTS
    Values,     \* values the setting may have
    MaxEdits,   \* bound: edits the user makes
    MaxSecond   \* bound: seconds of the clock

ASSUME SettingsAssumption ==
    /\ Values \cap {"torn", "none"} = {}
    /\ MaxEdits \in Nat /\ MaxSecond \in Nat

VARIABLES
    file,       \* the settings file: the setting and the user's other keys
    backup,     \* backup[s]: the copy named for second s
    second,     \* the clock, in the resolution of a backup's name
    act,        \* where the command is
    want,       \* the plan: the value the evidence asks for
    existing,   \* what apply read
    stamp,      \* the instant that names the backup and dates the record
    record,     \* the records of the log, the latest for each instant
    \* What really happened, for the properties only:
    keys,       \* the user's other keys as last written, a version number
    overwritten, \* the user's last write fell between apply's reading and its write
    twice       \* two applies have begun in one second

settingsVars == <<file, backup, second, act, want, existing, stamp, record, keys, overwritten, twice>>

Torn == [val |-> "torn", keys |-> -1]      \* bytes that are not JSON
NoFile == [val |-> "none", keys |-> -1]
NoRecord == [event |-> "none"]

SettingsInit ==
    /\ file \in {NoFile} \cup {[val |-> v, keys |-> 0] : v \in Values}
    /\ backup = [s \in 0..MaxSecond |-> NoFile]
    /\ second = 0 /\ stamp = 0
    /\ act = "idle"
    /\ want = "none"
    /\ existing = NoFile
    /\ record = [s \in 0..MaxSecond |-> NoRecord]
    /\ keys = file.keys /\ overwritten = FALSE /\ twice = FALSE

\* The command ends, and what it held with it.
ApplyEnds == act' = "idle" /\ want' = "none" /\ existing' = NoFile /\ stamp' = 0

\* The plan: the evidence asks for another value than the one read now.
Plan ==
    /\ act = "idle" /\ file # Torn
    /\ want' \in Values \ {file.val}
    /\ act' = "read"
    /\ UNCHANGED <<file, backup, second, existing, stamp, record, keys, overwritten, twice>>

\* Two commands, or a refusal and a command, have met in one second.
SecondTaken == backup[second] # NoFile \/ record[second] # NoRecord

\* The evidence is not trusted: --yes only leaves a record of the refusal.
Refuse ==
    /\ act = "idle"
    /\ record' = [record EXCEPT ![second] =
                    [event |-> "INTERVENTION_REFUSED", intended |-> "UNDECIDED",
                     actual |-> file.val, prior |-> NoFile]]
    /\ twice' = (twice \/ SecondTaken)
    /\ UNCHANGED <<file, backup, second, act, want, existing, stamp, keys, overwritten>>

\* One instant names the backup; a file that is not JSON is left alone.
Read ==
    /\ act = "read"
    /\ stamp' = second /\ existing' = file
    /\ twice' = (twice \/ SecondTaken)
    /\ act' = IF file = Torn THEN "idle" ELSE IF file = NoFile THEN "write" ELSE "backup"
    /\ UNCHANGED <<file, backup, second, want, record, keys, overwritten>>

\* Slip: no copy is kept.
BackupSkipped ==
    /\ act = "backup"
    /\ act' = "write"
    /\ UNCHANGED <<file, backup, second, want, existing, stamp, record, keys, overwritten, twice>>

Backup ==
    /\ act = "backup"
    /\ backup' = [backup EXCEPT ![stamp] = existing]
    /\ act' = "write"
    /\ UNCHANGED <<file, second, want, existing, stamp, record, keys, overwritten, twice>>

\* os.WriteFile: truncated first, then written.
Truncate ==
    /\ act = "write"
    /\ file' = Torn
    /\ act' = "fill"
    /\ UNCHANGED <<backup, second, want, existing, stamp, record, keys, overwritten, twice>>

\* Every key that was read is written back, with the setting changed.
Fill ==
    /\ act = "fill"
    /\ file' = [val |-> want, keys |-> existing.keys]
    /\ act' = "verify"
    /\ UNCHANGED <<backup, second, want, existing, stamp, record, keys, overwritten, twice>>

\* readSettingValue: UNREADABLE is the value of bytes that are not JSON.
ReadBack == file.val

\* INTERVENTION_APPLIED is earned by reading the value back.
Event(actual) == IF actual = want THEN "INTERVENTION_APPLIED" ELSE "APPLY_ATTEMPTED"

Verify ==
    /\ act = "verify"
    /\ record' = [record EXCEPT ![stamp] =
                    [event |-> Event(ReadBack), intended |-> want, actual |-> ReadBack,
                     prior |-> existing]]
    /\ ApplyEnds
    /\ UNCHANGED <<file, backup, second, keys, overwritten, twice>>

\* A write fails, or the command is killed: what was written so far stays, a
\* backup cut short included, and there is no record.
Abort ==
    /\ act # "idle"
    /\ ApplyEnds
    /\ \E left \in {backup[stamp]} \cup (IF act = "backup" THEN {Torn} ELSE {}) :
         backup' = [backup EXCEPT ![stamp] = left]
    /\ UNCHANGED <<file, second, record, keys, overwritten, twice>>

\* The user's program writes the file: another value, or other keys.
Edit ==
    /\ keys < MaxEdits
    /\ keys' = keys + 1
    /\ \E v \in Values : file' = [val |-> v, keys |-> keys + 1]
    /\ overwritten' = (act \in {"backup", "write", "fill"})
    /\ UNCHANGED <<backup, second, act, want, existing, stamp, record, twice>>

Tick ==
    /\ second < MaxSecond
    /\ second' = second + 1
    /\ UNCHANGED <<file, backup, act, want, existing, stamp, record, keys, overwritten, twice>>

SettingsNext ==
    \/ Plan \/ Refuse \/ Read \/ Backup \/ Truncate \/ Fill \/ Verify \/ Abort
    \/ Edit \/ Tick

SettingsSpec == SettingsInit /\ [][SettingsNext]_settingsVars

-----------------------------------------------------------------------------
Texts == Values \cup {"torn", "none"}
Files == [val : Texts, keys : -1..MaxEdits]
Records == [event : {"INTERVENTION_REFUSED", "INTERVENTION_APPLIED", "APPLY_ATTEMPTED"},
            intended : Texts \cup {"UNDECIDED"}, actual : Texts, prior : Files]

SettingsTypeOK ==
    /\ second \in 0..MaxSecond /\ stamp \in 0..MaxSecond
    /\ act \in {"idle", "read", "backup", "write", "fill", "verify"}
    /\ want \in Texts /\ keys \in -1..MaxEdits
    /\ file \in Files /\ existing \in Files
    /\ backup \in [0..MaxSecond -> Files]
    /\ record \in [0..MaxSecond -> Records \cup {NoRecord}]
    /\ overwritten \in BOOLEAN /\ twice \in BOOLEAN

\* Whatever the command is killed in the middle of, the user's other keys are
\* in the file or in a backup, unless their own program wrote the file between
\* apply's reading and its write; and a record never claims a change that was
\* not read back, nor points to a backup that holds something else than what
\* the change replaced, unless two were made in one second.
UserKeepsTheirs ==
    /\ SettingsTypeOK
    /\ ~overwritten => \/ keys = -1 \/ file.keys = keys
                       \/ \E s \in 0..MaxSecond : backup[s].keys = keys
    /\ \A s \in 0..MaxSecond : record[s] # NoRecord =>
         /\ record[s].event = "INTERVENTION_APPLIED" => record[s].actual = record[s].intended
         /\ twice \/ backup[s] = record[s].prior

=============================================================================
