----------------------------- MODULE LedgerFile -----------------------------
(***************************************************************************)
(* One session file of the ledger as bytes on disk: Store.Append, which    *)
(* opens the file for appending and writes one line in as many system      *)
(* calls as it takes (internal/ledger/store.go); ReadRecords, which asks   *)
(* how the file ends before it scans it; and replay purge, which rewrites  *)
(* the file through a sibling and a rename, or removes it                  *)
(* (cmd/replay/purge.go).  The three run in different processes and share  *)
(* nothing but the file.  A write may fail part-way, and the writing       *)
(* process may die at any point.                                           *)
(*                                                                         *)
(* An inode is a sequence of terminated lines and an unterminated tail.  A *)
(* line is a record or Junk: bytes that no longer parse.  The file system  *)
(* is external: a rename is atomic, and open descriptors keep their inode. *)
(***************************************************************************)
EXTENDS Integers, Sequences, FiniteSets, Functions

CONSTANTS
    Rec,            \* records to append, each at most once
    SessionOf,      \* the session id of each record
    Old,            \* records of an earlier schema, in the file from before
    MaxInodes       \* bound: files the path may name in turn

ASSUME LedgerAssumption ==
    /\ Rec \cap Old = {} /\ "junk" \notin Rec \cup Old /\ MaxInodes \in Nat \ {0}

VARIABLES
    disk,       \* content of each inode
    path,       \* the inode the file name points to; Absent if none
    inodes,     \* inodes made so far
    writer,     \* Append in progress
    reader,     \* ReadRecords in progress
    purge,      \* replay purge in progress
    \* What really happened, for the properties only:
    appended,   \* records handed to Append
    acked,      \* records whose Append returned nil
    raced,      \* records written while a purge was at work, or to a dead inode
    broken,     \* writes that stopped part-way
    erased      \* records a finished purge was asked to remove

vars == <<disk, path, inodes, writer, reader, purge, appended, acked, raced, broken, erased>>
history == <<appended, acked, raced, broken, erased>>

Absent == 0
Junk == "junk"                     \* a line that holds no record
Nothing == [kind |-> "clean"]      \* tails
Spoiled == [kind |-> "spoiled"]
Partial(r) == [kind |-> "partial", rec |-> r]
Whole(r) == [kind |-> "open", rec |-> r]
IsWhole(t) == t.kind = "open"

\* The entries of s that are in S, in their order.
Only(s, S) ==
    LET upTo[i \in 0..Len(s)] ==
          IF i = 0 THEN <<>>
          ELSE IF s[i] \in S THEN Append(upTo[i - 1], s[i]) ELSE upTo[i - 1]
    IN upTo[Len(s)]

Empty == [lines |-> <<>>, tail |-> Nothing]
Idle == [pc |-> "idle"]
Current == IF path = Absent THEN Empty ELSE disk[path]

Init ==
    /\ \E before \in {<<>>} \cup {<<r>> : r \in Old} :
         disk = [i \in 1..MaxInodes |-> IF i = 1 THEN [Empty EXCEPT !.lines = before] ELSE Empty]
    /\ path = 1 /\ inodes = 1
    /\ writer = Idle /\ reader = Idle /\ purge = Idle
    /\ appended = {} /\ acked = {} /\ raced = {} /\ erased = {}
    /\ broken = 0

-----------------------------------------------------------------------------
(* Append.                                                                 *)

\* The store's lock is taken and the file opened, or created.
Open(r) ==
    /\ writer = Idle /\ r \notin appended
    /\ path = Absent => inodes < MaxInodes
    /\ IF path = Absent THEN path' = inodes + 1 /\ inodes' = inodes + 1
       ELSE UNCHANGED <<path, inodes>>
    /\ writer' = [pc |-> "open", rec |-> r, inode |-> path', done |-> 0]
    /\ appended' = appended \cup {r}
    /\ UNCHANGED <<disk, reader, purge, acked, raced, broken, erased>>

\* Slip: the line is written over the unfinished one instead of behind it.
WrittenOver(content, r, done) ==
    IF done = 3
    THEN [lines |-> IF content.tail = Nothing THEN Append(content.lines, r)
                    ELSE [content.lines EXCEPT ![Len(content.lines)] = r],
          tail |-> Nothing]
    ELSE [content EXCEPT !.tail = IF done = 1 THEN Partial(r) ELSE Whole(r)]

\* What the file holds once the write has got this far: 1 is some of the JSON,
\* 2 all of it, 3 the newline too.  A record written behind an unfinished line
\* is glued to it, and the two no longer parse.
Written(content, r, done) ==
    LET mine == content.tail \in {Nothing, Partial(r), Whole(r)} IN
    IF done = 3
    THEN [lines |-> Append(content.lines, IF mine THEN r ELSE Junk), tail |-> Nothing]
    ELSE [content EXCEPT !.tail = IF ~mine THEN Spoiled ELSE IF done = 1 THEN Partial(r) ELSE Whole(r)]

Overlaps(i) == purge # Idle \/ i # path

\* One system call of os.File.Write.  The last one ends Append, which closes
\* the file and returns nil.
Write(done) ==
    /\ writer # Idle /\ writer.done < done
    /\ disk' = [disk EXCEPT ![writer.inode] = Written(@, writer.rec, done)]
    /\ raced' = IF Overlaps(writer.inode) THEN raced \cup {writer.rec} ELSE raced
    /\ IF done = 3 THEN writer' = Idle /\ acked' = acked \cup {writer.rec}
       ELSE writer' = [writer EXCEPT !.done = done] /\ UNCHANGED acked
    /\ reader' = IF reader # Idle /\ reader.inode = writer.inode
                 THEN [reader EXCEPT !.quiet = FALSE] ELSE reader
    /\ UNCHANGED <<path, inodes, purge, appended, broken, erased>>

\* The write fails and Append returns its error, or the process dies and a new
\* one starts: either way the bytes that were written stay, and Open and
\* Append of the next life do not look at how the file ends.
Interrupted ==
    /\ writer # Idle
    /\ writer' = Idle
    /\ broken' = broken + IF writer.done = 0 THEN 0 ELSE 1
    /\ UNCHANGED <<disk, path, inodes, reader, purge, appended, acked, raced, erased>>

-----------------------------------------------------------------------------
(* ReadRecords.                                                            *)

\* Opens the file and asks whether it ends on a newline.
endsWithNewline ==
    /\ reader = Idle /\ path # Absent
    /\ reader' = [pc |-> "scan", inode |-> path, clean |-> disk[path].tail = Nothing,
                  quiet |-> TRUE]
    /\ UNCHANGED <<disk, path, inodes, writer, purge, history>>

\* Records a parser makes of a file: whole lines and a tail that is all there.
Lines(content) ==
    IF content.tail = Nothing THEN content.lines
    ELSE Append(content.lines, IF IsWhole(content.tail) THEN content.tail.rec ELSE Junk)
Readable(content) == Only(Lines(content), Rec)

\* The scan and the correction for a torn tail, with the answer from before.
Scan(content, clean) ==
    LET all == Lines(content)
        last == all[Len(all)]
        torn == all # <<>> /\ last \notin Rec /\ ~clean
        count(S) == Len(Only(all, S))
    IN [records |-> Readable(content),
        skipped |-> count({Junk}) - IF torn /\ last = Junk THEN 1 ELSE 0,
        schemaMismatch |-> count(Old) - IF torn /\ last \in Old THEN 1 ELSE 0,
        incomplete |-> torn]

\* What the caller gets if the scan reaches the end of the file now.
Result == Scan(disk[reader.inode], reader.clean)

Return ==
    /\ reader # Idle
    /\ reader' = Idle
    /\ UNCHANGED <<disk, path, inodes, writer, purge, history>>

-----------------------------------------------------------------------------
(* replay purge --yes.                                                     *)

Others(s) == {Junk} \cup {r \in Rec \cup Old : SessionOf[r] # s}

\* Slip: an unterminated last line is kept without asking whose it is.
KeptTail(s, content) ==
    Only(content.lines, Others(s))
      \o IF IsWhole(content.tail) THEN <<content.tail.rec>> ELSE <<>>

\* The lines purgeSession keeps: every line that does not parse, and every
\* record of another session.  The tail is a line like the others.
Kept(s, content) == Only(Lines(content), Others(s))

\* purge --session reads the file; one without a match is left alone.
PurgeRead(s) ==
    /\ purge = Idle /\ path # Absent
    /\ Len(Kept(s, Current)) < Len(Lines(Current))
    /\ purge' = [pc |-> "rewrite", kept |-> Kept(s, Current),
                 doomed |-> {r \in Rec : r \in Range(Lines(Current)) /\ SessionOf[r] = s}]
    /\ UNCHANGED <<disk, path, inodes, writer, reader, history>>

\* The sibling is written and renamed over the file.
PurgeRename ==
    /\ purge # Idle /\ purge.pc = "rewrite" /\ inodes < MaxInodes
    /\ inodes' = inodes + 1 /\ path' = inodes + 1
    /\ disk' = [disk EXCEPT ![inodes + 1] = [lines |-> purge.kept, tail |-> Nothing]]
    /\ purge' = Idle
    /\ erased' = erased \cup purge.doomed
    /\ UNCHANGED <<writer, reader, appended, acked, raced, broken>>

\* The sibling cannot be written or renamed: the command ends with an error.
PurgeFails ==
    /\ purge # Idle /\ purge.pc = "rewrite"
    /\ purge' = Idle
    /\ UNCHANGED <<disk, path, inodes, writer, reader, history>>

\* purge --older-than finds the file old, when nothing is being written to it,
\* and removes it a moment later whatever has happened since.
PurgeStat ==
    /\ purge = Idle /\ path # Absent /\ writer = Idle
    /\ purge' = [pc |-> "remove"]
    /\ UNCHANGED <<disk, path, inodes, writer, reader, history>>
PurgeRemove ==
    /\ purge # Idle /\ purge.pc = "remove"
    /\ path' = Absent /\ purge' = Idle
    /\ erased' = erased \cup {r \in Rec : r \in Range(Lines(Current))}
    /\ UNCHANGED <<disk, inodes, writer, reader, appended, acked, raced, broken>>

Next ==
    \/ \E r \in Rec : Open(r)
    \/ \E done \in 1..3 : Write(done)
    \/ Interrupted
    \/ endsWithNewline \/ Return
    \/ \E r \in Rec \cup Old : PurgeRead(SessionOf[r])
    \/ PurgeRename \/ PurgeFails \/ PurgeStat \/ PurgeRemove

Spec == Init /\ [][Next]_vars

-----------------------------------------------------------------------------
TypeOK ==
    /\ path \in 0..MaxInodes /\ inodes \in 1..MaxInodes
    /\ \A i \in 1..MaxInodes :
         /\ Range(disk[i].lines) \subseteq Rec \cup Old \cup {Junk}
         /\ disk[i].tail \in {Nothing, Spoiled} \cup [kind : {"partial", "open"}, rec : Rec]
    /\ acked \subseteq appended /\ appended \subseteq Rec
    /\ raced \subseteq appended /\ erased \subseteq appended

\* What the file tells a reader, step by step, is the log of LedgerLog: no
\* interleaving of short writes, failed writes, restarts and purges takes more
\* from the log than the record at its unfinished end, or adds anything but a
\* whole record behind the others.
draftNow ==
    IF purge # Idle /\ purge.pc = "rewrite"
    THEN {Only(purge.kept, Rec)} ELSE {}
L == INSTANCE LedgerLog
       WITH log <- Readable(Current), tail <- Current.tail.kind, draft <- draftNow
IsALog == L!Spec

\* Each interrupted write costs at most one record whose Append returned nil,
\* the next one, and nothing else does: apart from what a purge was asked to
\* remove or ran into, every other acknowledged record stays readable.
LossBounded ==
    TypeOK /\
    Cardinality({r \in acked \ (erased \cup raced) : r \notin Range(Readable(Current))}) <= broken

\* A record that a purge reported removed is never read again, whatever was
\* being appended while the purge rewrote the file.
ErasureHolds ==
    purge = Idle => erased \cap Range(Readable(Current)) = {}

\* A read that no write ran into reports exactly the lines that are lost and
\* says whether a record is still being written; one that raced a write is off
\* by one line at most and never returns a record that was not appended.
ReadIsHonest ==
    reader # Idle =>
        LET content == disk[reader.inode]
            lost == Len(Only(content.lines, {Junk}))
            unfinished == content.tail # Nothing /\ ~IsWhole(content.tail)
        IN /\ reader.quiet => Result.skipped = lost /\ Result.incomplete = unfinished
           /\ Result.skipped \in (lost - 1)..(lost + 1)
           /\ Result.schemaMismatch >= 0
           /\ Range(Result.records) \subseteq appended

\* Each interrupted write costs at most the next record, what a purge removed is
\* never read again, and a read reports what it could not use.
LedgerKeepsItsWord == LossBounded /\ ErasureHolds /\ ReadIsHonest

\* "A crash loses at most the tail; earlier records stay readable": a record
\* whose Append returned nil stays readable until it is purged.
AckedStaysReadable ==
    acked \ (erased \cup raced) \subseteq Range(Readable(Current))

=============================================================================
