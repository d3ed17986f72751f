------------------------------- MODULE Upgrade -------------------------------
(***************************************************************************)
(* replay upgrade: Fetch and Apply (internal/selfupdate/fetch.go), the     *)
(* signature check between them (verify.go) and the command around them    *)
(* (cmd/replay/upgrade.go).  The archive, the checksums, the certificate   *)
(* and the signature are separate downloads; the release may be published  *)
(* again between two of them, and any download may fail or arrive damaged. *)
(* The new binary is written beside the old one, run once and renamed over *)
(* it.  The command may be killed at any point, and two of them may run at *)
(* once.                                                                   *)
(*                                                                         *)
(* A build is a number: the archive, the checksums and the signature of    *)
(* one build carry the same one.  Foreign marks assets that CI did not     *)
(* produce; their checksums match, their signature does not verify.        *)
(***************************************************************************)
EXTENDS Integers

CONSTANTS
    Cmd,        \* upgrade commands, each with a process id of its own
    Builds,     \* builds of the tag that may be published in turn, 1..n
    Foreign,    \* those of them that CI did not produce
    Runnable    \* those that execute on this machine

ASSUME UpgradeAssumption == Builds \subseteq Nat \ {0} /\ 1 \in Builds

VARIABLES
    release,    \* the build whose assets are published
    cosign,     \* cosign is installed
    at,         \* where each command is
    archive,    \* what each command downloaded, Damaged included
    sums,       \* the build whose checksums each command downloaded
    signature,  \* the build whose certificate and signature it downloaded
    staged,     \* the content of its staged file
    dest,       \* the installed binary
    \* What really happened, for the properties only:
    checked,    \* builds whose own checksums accepted the archive
    ran         \* builds whose staged file was run with success

upgradeVars == <<release, cosign, at, archive, sums, signature, staged, dest, checked, ran>>
world == <<release, cosign>>

Installed == 0      \* the binary that was there before
Damaged == -1       \* bytes that are no build: a damaged download, a partial file
NotThere == -2

UpgradeInit ==
    /\ release = 1 /\ cosign \in BOOLEAN
    /\ at = [c \in Cmd |-> "archive"]
    /\ archive = [c \in Cmd |-> NotThere] /\ sums = [c \in Cmd |-> NotThere]
    /\ signature = [c \in Cmd |-> NotThere] /\ staged = [c \in Cmd |-> NotThere]
    /\ dest = Installed
    /\ checked = {} /\ ran = {}

Goto(c, s) == at' = [at EXCEPT ![c] = s]

\* The process ends, and what it downloaded with it.
Ends(c) ==
    /\ Goto(c, "over")
    /\ archive' = [archive EXCEPT ![c] = NotThere]
    /\ sums' = [sums EXCEPT ![c] = NotThere]
    /\ signature' = [signature EXCEPT ![c] = NotThere]

\* A download, in the order Fetch makes them: what is published now, or damage.
Downloads(c, here, next, slot) ==
    /\ at[c] = here
    /\ \E got \in {release, Damaged} : slot' = [slot EXCEPT ![c] = got]
    /\ Goto(c, next)

GetArchive(c) ==
    /\ Downloads(c, "archive", "sums", archive)
    /\ UNCHANGED <<world, sums, signature, staged, dest, checked, ran>>

GetSums(c) ==
    /\ Downloads(c, "sums", "digest", sums)
    /\ UNCHANGED <<world, archive, signature, staged, dest, checked, ran>>

\* Slip: checksums of any build vouch for the archive.
MatchesAny(c) == sums[c] # Damaged

\* DigestFor found the archive's name in the checksums and the digests agree.
Matches(c) == sums[c] # Damaged /\ archive[c] = sums[c]

CheckDigest(c) ==
    /\ at[c] = "digest" /\ Matches(c)
    /\ Goto(c, IF cosign THEN "signature" ELSE "unpack")
    /\ checked' = IF cosign THEN checked ELSE checked \cup ({archive[c]} \cap {sums[c]})
    /\ UNCHANGED <<world, archive, sums, signature, staged, dest, ran>>

\* verifyChecksumSignature with cosign installed.
GetSignature(c) ==
    /\ Downloads(c, "signature", "verify", signature)
    /\ UNCHANGED <<world, archive, sums, staged, dest, checked, ran>>
VerifySignature(c) ==
    /\ at[c] = "verify"
    /\ signature[c] = sums[c] /\ signature[c] \notin Foreign
    /\ Goto(c, "unpack")
    /\ checked' = checked \cup ({archive[c]} \cap {sums[c]})
    /\ UNCHANGED <<world, archive, sums, signature, staged, dest, ran>>

\* Any download, check or system call fails, or the command is a dry run: it
\* ends without touching the installed binary.  Apply removes its staged file.
GiveUp(c) ==
    /\ at[c] # "over" /\ Ends(c)
    /\ staged' = [staged EXCEPT ![c] = NotThere]
    /\ UNCHANGED <<world, dest, checked, ran>>

\* Apply: os.WriteFile truncates and writes; a kill may leave a partial file.
Stage(c) ==
    /\ at[c] = "unpack"
    /\ staged' = [staged EXCEPT ![c] = Damaged]
    /\ Goto(c, "staging")
    /\ UNCHANGED <<world, archive, sums, signature, dest, checked, ran>>
Staged(c) ==
    /\ at[c] = "staging"
    /\ staged' = [staged EXCEPT ![c] = archive[c]]
    /\ Goto(c, "run")
    /\ UNCHANGED <<world, archive, sums, signature, dest, checked, ran>>

\* The staged binary is asked for its version.
Run(c) ==
    /\ at[c] = "run" /\ staged[c] \in Runnable
    /\ Goto(c, "rename")
    /\ ran' = ran \cup {staged[c]}
    /\ UNCHANGED <<world, archive, sums, signature, staged, dest, checked>>

Rename(c) ==
    /\ at[c] = "rename"
    /\ dest' = staged[c]
    /\ staged' = [staged EXCEPT ![c] = NotThere]
    /\ Ends(c)
    /\ UNCHANGED <<world, checked, ran>>

\* The command is killed: its deferred clean-up does not run.
Kill(c) ==
    /\ at[c] # "over" /\ Ends(c)
    /\ UNCHANGED <<world, staged, dest, checked, ran>>

\* The user types it again; a process id, and so a staged name, may come back.
Retry(c) ==
    /\ at[c] = "over"
    /\ Goto(c, "archive")
    /\ UNCHANGED <<world, archive, sums, signature, staged, dest, checked, ran>>

Publish ==
    /\ release + 1 \in Builds
    /\ release' = release + 1
    /\ UNCHANGED <<cosign, at, archive, sums, signature, staged, dest, checked, ran>>

UpgradeNext ==
    \/ Publish
    \/ \E c \in Cmd :
         \/ GetArchive(c) \/ GetSums(c) \/ CheckDigest(c) \/ GetSignature(c)
         \/ VerifySignature(c) \/ GiveUp(c) \/ Stage(c) \/ Staged(c) \/ Run(c)
         \/ Rename(c) \/ Kill(c) \/ Retry(c)

UpgradeSpec == UpgradeInit /\ [][UpgradeNext]_upgradeVars

-----------------------------------------------------------------------------
Content == Builds \cup {Damaged, NotThere}

UpgradeTypeOK ==
    /\ release \in Builds /\ cosign \in BOOLEAN
    /\ dest \in Builds \cup {Installed}
    /\ at \in [Cmd -> {"archive", "sums", "digest", "signature", "verify", "unpack", "staging",
                       "run", "rename", "over"}]
    /\ archive \in [Cmd -> Content] /\ sums \in [Cmd -> Content]
    /\ signature \in [Cmd -> Content] /\ staged \in [Cmd -> Content]

\* What stands at the path of the binary is at every moment the old one or one
\* whole build that was matched against the checksums, signed by CI where that
\* can be asked, and has been seen to run here: no republished release, damaged
\* download, kill or second upgrade puts anything else there.
InstalledIsProven ==
    /\ UpgradeTypeOK
    /\ dest # Installed => /\ dest \in checked /\ dest \in ran /\ dest \in Runnable
                           /\ cosign => dest \notin Foreign

=============================================================================
