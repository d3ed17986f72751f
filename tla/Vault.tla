--------------------------------- MODULE Vault ---------------------------------
(***************************************************************************)
(* The masking vault (internal/masking/vault.go): which secret each        *)
(* placeholder stands for, kept in memory and in one encrypted file beside *)
(* its key.  A placeholder is the HMAC of its secret, so a secret names    *)
(* its own entry, and an entry is abstracted to the second it was stamped. *)
(*                                                                         *)
(* save writes a temporary file and renames it, so a write either replaces *)
(* the whole file or changes nothing; the key is written in place and may  *)
(* be left torn.  One process owns the directory.  promised, seen and      *)
(* failed are history: the stamp behind the placeholder last handed out,   *)
(* when that was, and whether a save has failed since the last good one.   *)
(***************************************************************************)
EXTENDS Integers

CONSTANTS
    Secret,
    TTL,            \* retention in ticks; 0 disables eviction
    MaxClock        \* bound on the clock

ASSUME VaultAssumption == TTL \in Nat /\ MaxClock \in Nat \ {0}

Absent == -1        \* no entry, or no placeholder handed out yet
Unstamped == 0      \* At of an entry written before eviction existed
NoKey == 0          \* no key file, or no vault file
Torn == -1          \* a key file of the wrong length

VARIABLES
    clock, phase,
    key, made,      \* the key file, and how many keys were ever written
    loaded,         \* v.key of the running process
    sealed,         \* the key the vault file is sealed under
    disk, mem,      \* the vault file and v.secrets
    promised, seen, failed

files == <<key, made, sealed, disk>>
vars == <<clock, phase, files, loaded, mem, promised, seen, failed>>

Empty == [s \in Secret |-> Absent]
Stamps == Absent..MaxClock

\* Nothing was ever masked, or a vault of an older release is there.
Init ==
    /\ clock = 1 /\ phase = "down" /\ loaded = NoKey
    /\ mem = Empty /\ promised = Empty /\ seen = Empty /\ failed = FALSE
    /\ \/ key = NoKey /\ made = 0 /\ sealed = NoKey /\ disk = Empty
       \/ /\ key = 1 /\ made = 1 /\ sealed = 1
          /\ \E old \in SUBSET Secret :
                disk = [s \in Secret |-> IF s \in old THEN Unstamped ELSE Absent]

expired(at) == TTL > 0 /\ clock - at > TTL

sweepLocked(m) ==
    [s \in Secret |->
        CASE m[s] = Unstamped -> clock
          [] m[s] > Unstamped /\ expired(m[s]) -> Absent
          [] OTHER -> m[s]]

\* save: the whole map under the process's key, or nothing.
save(m) == disk' = m /\ sealed' = loaded /\ failed' = FALSE

saveFails == UNCHANGED <<disk, sealed>> /\ failed' = TRUE

-----------------------------------------------------------------------------
(* OpenVaultWithTTL, at the start of serve. *)

ReadKey ==
    /\ phase = "down" /\ key > NoKey
    /\ loaded' = key /\ phase' = "keyed"
    /\ UNCHANGED <<clock, files, mem, promised, seen, failed>>

\* Slip: a key is made whatever the file holds.
CreateKeyAnyway ==
    /\ phase = "down" /\ made < 2
    /\ key' = made + 1 /\ made' = made + 1
    /\ loaded' = key' /\ phase' = "keyed"
    /\ UNCHANGED <<clock, sealed, disk, mem, promised, seen, failed>>

\* No key of the right length: make one.
CreateKey ==
    /\ phase = "down" /\ key <= NoKey
    /\ key' = made + 1 /\ made' = made + 1
    /\ loaded' = key' /\ phase' = "keyed"
    /\ UNCHANGED <<clock, sealed, disk, mem, promised, seen, failed>>

\* The write fails, or the process dies part-way through it.
CreateKeyFails ==
    /\ phase = "down" /\ key <= NoKey
    /\ key' = Torn
    /\ UNCHANGED <<clock, phase, made, loaded, sealed, disk, mem, promised, seen, failed>>

\* Decrypt and decode the file if there is one, sweep, and rewrite it only if
\* the sweep changed something; no vault, and no serve, when a step fails.
Open(ok) ==
    LET swept == sweepLocked(disk)
        opens == sealed \in {NoKey, loaded}
    IN /\ phase = "keyed"
       /\ IF ok THEN opens ELSE opens => swept # disk
       /\ phase' = IF ok THEN "up" ELSE "down"
       /\ IF ok
          THEN /\ mem' = swept /\ disk' = swept /\ failed' = FALSE
               /\ sealed' = IF swept = disk THEN sealed ELSE loaded
          ELSE UNCHANGED <<mem, disk, sealed, failed>>
       /\ UNCHANGED <<clock, key, made, loaded, promised, seen>>

-----------------------------------------------------------------------------
(* Placeholder, called by Mask for each secret it finds. *)

HandOut(s, at) ==
    /\ promised' = [promised EXCEPT ![s] = at]
    /\ seen' = [seen EXCEPT ![s] = clock]

\* Slip: what the sweep drops is not written back.
PlaceholderKnownLazily(s) ==
    LET swept == sweepLocked(mem)
    IN /\ phase = "up" /\ swept[s] # Absent
       /\ mem' = swept
       /\ HandOut(s, swept[s])
       /\ UNCHANGED <<clock, phase, files, loaded, failed>>

\* The entry is there and the sweep changed nothing.
PlaceholderKnown(s) ==
    LET swept == sweepLocked(mem)
    IN /\ phase = "up" /\ swept[s] # Absent /\ swept = mem
       /\ HandOut(s, mem[s])
       /\ UNCHANGED <<clock, phase, files, loaded, mem, failed>>

\* The entry is there and the sweep dropped others: rewrite the file.  When
\* that fails Mask scrubs the secret with BlindPlaceholder.
PlaceholderSwept(s, ok) ==
    LET swept == sweepLocked(mem)
    IN /\ phase = "up" /\ swept[s] # Absent /\ swept # mem
       /\ mem' = swept
       /\ IF ok THEN save(swept) /\ HandOut(s, swept[s])
                ELSE saveFails /\ UNCHANGED <<promised, seen>>
       /\ UNCHANGED <<clock, phase, key, made, loaded>>

\* Slip: the entry stays in memory when it could not be written.
PlaceholderNewKept(s, ok) ==
    LET added == [sweepLocked(mem) EXCEPT ![s] = clock]
    IN /\ phase = "up" /\ sweepLocked(mem)[s] = Absent
       /\ mem' = added
       /\ IF ok THEN save(added) /\ HandOut(s, clock)
                ELSE saveFails /\ UNCHANGED <<promised, seen>>
       /\ UNCHANGED <<clock, phase, key, made, loaded>>

\* A secret not held: add it and write the file, or take it out again.
PlaceholderNew(s, ok) ==
    LET swept == sweepLocked(mem)
        added == [swept EXCEPT ![s] = clock]
    IN /\ phase = "up" /\ swept[s] = Absent
       /\ IF ok THEN mem' = added /\ save(added) /\ HandOut(s, clock)
                ELSE mem' = swept /\ saveFails /\ UNCHANGED <<promised, seen>>
       /\ UNCHANGED <<clock, phase, key, made, loaded>>

\* The process ends; nothing is written on the way out.
Die ==
    /\ phase # "down"
    /\ phase' = "down" /\ mem' = Empty
    /\ UNCHANGED <<clock, files, loaded, promised, seen, failed>>

Tick ==
    /\ clock < MaxClock
    /\ clock' = clock + 1
    /\ UNCHANGED <<phase, files, loaded, mem, promised, seen, failed>>

Next ==
    \/ ReadKey \/ CreateKey \/ CreateKeyFails \/ Die \/ Tick
    \/ \E ok \in BOOLEAN :
          \/ Open(ok)
          \/ \E s \in Secret : PlaceholderSwept(s, ok) \/ PlaceholderNew(s, ok)
    \/ \E s \in Secret : PlaceholderKnown(s)

Spec == Init /\ [][Next]_vars

-----------------------------------------------------------------------------
(* The vault's state is well typed; every entry in use has a stamp, so the  *)
(* retention clock of an upgraded vault is running.                        *)
TypeOK ==
    /\ clock \in 1..MaxClock /\ phase \in {"down", "keyed", "up"}
    /\ made \in Nat /\ key \in Torn..made /\ sealed \in NoKey..made
    /\ loaded \in NoKey..made
    /\ disk \in [Secret -> Stamps]
    /\ mem \in [Secret -> Stamps \ {Unstamped}]
    /\ promised \in [Secret -> Stamps \ {Unstamped}] /\ seen \in [Secret -> Stamps]
    /\ failed \in BOOLEAN

\* Secret: what a lookup of the placeholder would find.
Restorable(s) == mem[s] # Absent /\ ~expired(mem[s])

(* A restart loses nothing: a placeholder that Placeholder handed out is   *)
(* restored by every later process until its stamp has outlived the TTL,   *)
(* whatever saves failed and wherever a process died.                      *)
KeptForItsWindow ==
    \A s \in Secret :
        phase = "up" /\ promised[s] # Absent /\ ~expired(promised[s])
            => Restorable(s)

(* The key beside the vault file is always the one it is sealed under, so  *)
(* no crash in loadOrCreateKey or save leaves a vault that cannot be       *)
(* opened.                                                                 *)
VaultOpens == sealed # NoKey => key = sealed

(* Unless a save has failed since, nothing on disk had outlived the TTL    *)
(* when the vault last handed out a placeholder: eviction in Placeholder   *)
(* reaches the file, not only the map.                                     *)
SweptAtRest ==
    phase = "up" /\ ~failed /\ TTL > 0
        => \A s, t \in Secret :
              disk[s] # Absent /\ seen[t] # Absent => seen[t] - disk[s] <= TTL

(* What the vault promises across saves, crashes and restarts: it opens,   *)
(* it restores what it handed out for as long as it said, and it keeps     *)
(* nothing longer than that.                                               *)
VaultKeepsItsWord == VaultOpens /\ KeptForItsWindow /\ SweptAtRest

(* vault.go on DefaultVaultTTL: "The only thing lost is rehydrating a      *)
(* placeholder whose secret has not been seen in a day."                   *)
RestorableForADay ==
    \A s \in Secret :
        phase = "up" /\ seen[s] # Absent /\ clock - seen[s] <= TTL
            => Restorable(s)

================================================================================
