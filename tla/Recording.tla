------------------------------ MODULE Recording ------------------------------
(***************************************************************************)
(* `replay outcome-record` captures the working copy a run left, beside    *)
(* whatever still edits it, and `replay outcome` scores what was captured. *)
(* The source tree is hashed, copied and hashed again, entry by entry; the *)
(* run directory is created by one mkdir, and run.json, without which a    *)
(* directory is not a run, is renamed into place last.  Several recorders  *)
(* may be given one --out.  A tree id is the contents it was computed      *)
(* from; an entry is read and written whole.                               *)
(***************************************************************************)
EXTENDS Naturals, Sequences

CONSTANTS
    Recorder,   \* processes recording into one --out
    Size,       \* entries of the tree, met in the order of a walk
    MaxEdits    \* bound: edits of one entry of the source

ASSUME RecordingAssumption ==
    /\ Size \in Nat /\ MaxEdits \in Nat
    /\ "none" \notin Recorder

\* An entry is as pinned, 0, or modified, 1.
Substrate == [i \in 1..Size |-> 0]

VARIABLES
    source,     \* the working copy
    step,       \* where each recorder is
    asked,      \* what it may record: only the substrate, or a modified tree
    seen,       \* what its present walk has met
    before,     \* the source's tree id before the copy
    out,        \* the run directory
    score,      \* where `replay outcome` on it is, or its verdict
    \* What really happened, for the properties only:
    edits,      \* how often each entry was edited
    drifted     \* an entry was edited while the tree was copied

recordingVars == <<source, step, asked, seen, before, out, score, edits, drifted>>

Nil == "none"
Operands == {"substrate", "modified"}
\* The directory: who made it, the entries copied into tree/, the three ids of
\* provenance.json, .run.json.tmp and run.json.
NoOut == [owner |-> Nil, tree |-> <<>>, provenance |-> <<>>, tmp |-> Nil, run |-> Nil]

RecordInit ==
    /\ source \in [1..Size -> 0..1]
    /\ step = [p \in Recorder |-> "start"]
    /\ asked = [p \in Recorder |-> Nil]
    /\ seen = [p \in Recorder |-> <<>>] /\ before = [p \in Recorder |-> <<>>]
    /\ out = NoOut
    /\ score = "idle"
    /\ edits = [i \in 1..Size |-> 0] /\ drifted = FALSE

Go(p, from, to) == step[p] = from /\ step' = [step EXCEPT ![p] = to]

\* The process is gone, and what it held with it.
Leave(p, how) ==
    /\ step' = [step EXCEPT ![p] = how]
    /\ asked' = [asked EXCEPT ![p] = Nil]
    /\ seen' = [seen EXCEPT ![p] = <<>>] /\ before' = [before EXCEPT ![p] = <<>>]

Copying == out.owner # Nil /\ Len(out.tree) < Size

\* Whoever still works in the tree.
Edit ==
    /\ \E i \in 1..Size :
          /\ edits[i] < MaxEdits /\ edits' = [edits EXCEPT ![i] = @ + 1]
          /\ source' = [source EXCEPT ![i] = 1 - @]
    /\ drifted' = (drifted \/ Copying)
    /\ UNCHANGED <<step, asked, seen, before, out, score>>

-----------------------------------------------------------------------------
(* The recorder.                                                           *)

\* The flags, the reply file and the paths are good, and --out is not there.
Check(p) ==
    /\ Go(p, "start", "before")
    /\ out = NoOut
    /\ \E o \in Operands : asked' = [asked EXCEPT ![p] = o]
    /\ UNCHANGED <<source, seen, before, out, score, edits, drifted>>

\* One entry of a walk over the source.
Meet(p) == seen' = [seen EXCEPT ![p] = Append(@, source[Len(@) + 1])]

HashBefore(p) ==
    /\ step[p] = "before" /\ Len(seen[p]) < Size
    /\ Meet(p)
    /\ UNCHANGED <<source, step, asked, before, out, score, edits, drifted>>

\* The id is the substrate's, or a modified tree is allowed; mkdir decides
\* between two recorders that both found nothing there.
MakeOut(p) ==
    /\ Go(p, "before", "copy") /\ Len(seen[p]) = Size
    /\ seen[p] = Substrate \/ asked[p] = "modified"
    /\ out = NoOut
    /\ out' = [NoOut EXCEPT !.owner = p]
    /\ before' = [before EXCEPT ![p] = seen[p]]
    /\ seen' = [seen EXCEPT ![p] = <<>>]
    /\ drifted' = FALSE
    /\ UNCHANGED <<source, asked, score, edits>>

\* A refusal before the directory is made leaves nothing to remove: a bad
\* operand, an unreadable entry, a tree that is not the substrate, a directory
\* that exists.
RefuseEarly(p) ==
    /\ step[p] \in {"start", "before"}
    /\ Leave(p, "refused")
    /\ UNCHANGED <<source, out, score, edits, drifted>>

CopyEntry(p) ==
    /\ step[p] = "copy" /\ Len(out.tree) < Size
    /\ out' = [out EXCEPT !.tree = Append(@, source[Len(@) + 1])]
    /\ UNCHANGED <<source, step, asked, seen, before, score, edits, drifted>>

HashAfter(p) ==
    /\ step[p] = "copy" /\ Len(out.tree) = Size /\ Len(seen[p]) < Size
    /\ Meet(p)
    /\ UNCHANGED <<source, step, asked, before, out, score, edits, drifted>>

\* Slip: the source is not looked at again after the copy.
StableOnce(p) == out.tree = before[p]

\* Three tree ids are compared.
Stable(p) == out.tree = before[p] /\ seen[p] = before[p]

Compared(p) == step[p] = "copy" /\ Len(out.tree) = Size /\ Len(seen[p]) = Size

WriteProvenance(p) ==
    /\ Compared(p) /\ Stable(p)
    /\ Go(p, "copy", "described")
    /\ out' = [out EXCEPT !.provenance = <<before[p], out.tree, seen[p]>>]
    /\ UNCHANGED <<source, asked, seen, before, score, edits, drifted>>

WriteTmp(p) ==
    /\ Go(p, "described", "written")
    /\ out' = [out EXCEPT !.tmp = asked[p]]
    /\ UNCHANGED <<source, asked, seen, before, score, edits, drifted>>

RenameRun(p) ==
    /\ step[p] = "written"
    /\ Leave(p, "recorded")
    /\ out' = [out EXCEPT !.run = out.tmp, !.tmp = Nil]
    /\ UNCHANGED <<source, score, edits, drifted>>

\* A copy that fails, ids that differ and a write that fails all end in the
\* deferred RemoveAll.
RefuseLate(p) ==
    /\ step[p] \in {"copy", "described", "written"}
    /\ Leave(p, "refused")
    /\ out' = NoOut
    /\ UNCHANGED <<source, score, edits, drifted>>

\* Killed anywhere: nothing deferred runs.
Die(p) ==
    /\ step[p] \in {"copy", "described", "written"}
    /\ Leave(p, "dead")
    /\ UNCHANGED <<source, out, score, edits, drifted>>

-----------------------------------------------------------------------------
(* The scorer.                                                             *)

\* run.json is read first; a directory without one is UNAVAILABLE, and so is a
\* run that names another task or manifest, failed or lacks its usage or reply.
ScoreReads ==
    /\ score = "idle"
    /\ score' \in {"read", "UNAVAILABLE"} /\ (score' = "read" => out.run # Nil)
    /\ UNCHANGED <<source, step, asked, seen, before, out, edits, drifted>>

\* Then the tree: one that is not the substrate FAILs, the substrate passes with
\* the answer counted from it, and a tree that is not there or cannot be read
\* is UNAVAILABLE.
ScoreJudges ==
    /\ score = "read"
    /\ score' \in (IF out.tree = Substrate THEN {"PASS", "FAIL"} ELSE {"FAIL"})
                 \cup {"UNAVAILABLE"}
    /\ UNCHANGED <<source, step, asked, seen, before, out, edits, drifted>>

RecordNext ==
    \/ Edit
    \/ \E p \in Recorder :
          \/ Check(p) \/ HashBefore(p) \/ MakeOut(p) \/ RefuseEarly(p)
          \/ CopyEntry(p) \/ HashAfter(p) \/ WriteProvenance(p) \/ WriteTmp(p)
          \/ RenameRun(p) \/ RefuseLate(p) \/ Die(p)
    \/ ScoreReads \/ ScoreJudges

RecordSpec == RecordInit /\ [][RecordNext]_recordingVars

-----------------------------------------------------------------------------
RunDirectory ==
    [owner : Recorder \cup {Nil}, tree : Seq(0..1), provenance : Seq(Seq(0..1)),
     tmp : Operands \cup {Nil}, run : Operands \cup {Nil}]

RecordTypeOK ==
    /\ source \in [1..Size -> 0..1] /\ edits \in [1..Size -> 0..MaxEdits]
    /\ step \in [Recorder -> {"start", "before", "copy", "described", "written", "recorded",
                              "refused", "dead"}]
    /\ asked \in [Recorder -> Operands \cup {Nil}]
    /\ seen \in [Recorder -> Seq(0..1)] /\ before \in [Recorder -> Seq(0..1)]
    /\ out \in RunDirectory
    /\ score \in {"idle", "read", "PASS", "FAIL", "UNAVAILABLE"} /\ drifted \in BOOLEAN

\* A run directory that can be scored holds a tree that the working copy really
\* was, all the time it was copied, unless somebody changed an entry and changed
\* it back; provenance.json describes it; and a tree that is not the substrate
\* was asked for.
RecordedIsReal ==
    out.run # Nil =>
        /\ out.provenance = <<out.tree, out.tree, out.tree>> /\ Len(out.tree) = Size
        /\ drifted => \E i \in 1..Size : edits[i] > 1
        /\ out.tree = Substrate \/ out.run = "modified"

\* A recorder that refuses leaves no directory of its own and removes no other
\* one's: whoever has not refused still owns what it made.
RefusalIsClean ==
    \A p \in Recorder :
        /\ step[p] = "refused" => out.owner # p
        /\ step[p] \in {"copy", "described", "written", "recorded", "dead"} => out.owner = p

\* A verdict other than UNAVAILABLE is about a complete recording, and a PASS
\* about the pinned tree.
VerdictIsSupported ==
    score \in {"PASS", "FAIL"} =>
        /\ out.run # Nil /\ step[out.owner] = "recorded"
        /\ score = "PASS" => out.tree = Substrate

\* A run directory that can be scored holds the tree the working copy was while
\* it was copied, a refused recorder leaves nothing, and a verdict rests on a
\* complete recording.
RecordingIsSound == RecordTypeOK /\ RecordedIsReal /\ RefusalIsClean /\ VerdictIsSupported
=============================================================================
