-------------------------------- MODULE Pool --------------------------------
(* Corpus submissions and the figure made of them: `replay cost --contribute` *)
(* on several machines (cmd/replay/contribute.go, internal/observation/       *)
(* corpus.go) and `replay pool` over the files they wrote                     *)
(* (cmd/replay/pool.go, internal/observation/pool.go).                        *)
(*                                                                            *)
(* A machine's figures are cumulative: each submission is all it has spent so *)
(* far.  A digest is the content of a submission; `intact` says whether a     *)
(* file still has the content its digest was taken of.                        *)
EXTENDS Integers, FiniteSets, FiniteSetsExt, Sequences, SequencesExt

CONSTANTS
    Machine, Proc,
    Rules,          \* versions of the caching rules
    MaxHour, MaxSpent, MaxFiles, MaxSecrets

ASSUME PoolAssumption ==
    /\ {MaxHour, MaxSpent, MaxFiles, MaxSecrets} \subseteq Nat
    /\ IsFiniteSet(Machine)

VARIABLES
    hour,
    outlay,         \* what each machine's transcripts come to
    consent,        \* the consent file: granted, or anything else
    secret,         \* contributor secret on disk: 0 none, -1 too short
    minted,
    job,            \* each process: where it is, its machine and its secret
    dir,            \* the submissions written
    given, todo,    \* files replay pool was given, and has still to read
    pooling,
    roster, superseded, refused,
    forked          \* history: machines that wrote two secrets

poolVars == <<hour, outlay, consent, secret, minted, job, dir, given, todo, pooling, roster,
          superseded, refused, forked>>

world == <<hour, outlay, consent>>
pool == <<given, todo, pooling, roster, superseded, refused>>

NoJob == [at |-> "idle", machine |-> "none", secret |-> 0]

PoolInit ==
    /\ hour = 0 /\ outlay = [m \in Machine |-> 0]
    /\ consent \in [Machine -> {"granted", "withheld"}]
    /\ secret = [m \in Machine |-> 0] /\ minted = 0
    /\ job = [p \in Proc |-> NoJob]
    /\ dir = {}
    /\ pooling = FALSE /\ given = {} /\ todo = {}
    /\ roster = <<>> /\ superseded = <<>> /\ refused = {}
    /\ forked = {}

-----------------------------------------------------------------------------
\* contributeCorpus: nothing happens without the one answer that is a yes;
\* then contributorSecret looks for the machine's secret.
contributeCorpus(p, m) ==
    /\ job[p].at = "idle" /\ consent[m] = "granted"
    /\ Cardinality(dir) < MaxFiles
    /\ secret[m] # -1
    /\ job' = [job EXCEPT ![p] =
                  [at |-> IF secret[m] = 0 THEN "mint" ELSE "write",
                   machine |-> m, secret |-> secret[m]]]
    /\ UNCHANGED <<world, secret, minted, dir, pool, forked>>

\* There was none: one is made and written in place.
contributorSecret(p) ==
    LET m == job[p].machine
    IN  /\ job[p].at = "mint" /\ minted < MaxSecrets
        /\ minted' = minted + 1
        /\ secret' = [secret EXCEPT ![m] = minted + 1]
        /\ forked' = IF secret[m] = 0 THEN forked ELSE forked \cup {m}
        /\ job' = [job EXCEPT ![p].at = "write", ![p].secret = minted + 1]
        /\ UNCHANGED <<world, dir, pool>>

\* The process dies in that write: a secret that is refused from then on.
MintKilled(p) ==
    LET m == job[p].machine
    IN  /\ job[p].at = "mint"
        /\ secret' = [secret EXCEPT ![m] = -1]
        /\ forked' = IF secret[m] = 0 THEN forked ELSE forked \cup {m}
        /\ job' = [job EXCEPT ![p] = NoJob]
        /\ UNCHANGED <<world, minted, dir, pool>>

\* The user follows the error's advice and deletes it; the next tag is new.
DeleteShort(m) ==
    /\ secret[m] = -1 /\ secret' = [secret EXCEPT ![m] = 0]
    /\ forked' = IF \E f \in dir : f.machine = m THEN forked \cup {m} ELSE forked
    /\ UNCHANGED <<world, minted, job, dir, pool>>

\* Taken at hour h, of a machine that has spent s by then, under rules r.
Submission(p, h, s, r) ==
    LET m == job[p].machine
    IN  [tag |-> job[p].secret, taken |-> h, usd |-> s, rules |-> r,
         intact |-> TRUE, machine |-> m]

\* WriteCorpus: an empty corpus is refused, and so is one that is there already.
\* The time and the spend since the last submission pass here too.
WriteCorpus(p, h, s, r) ==
    LET m == job[p].machine
    IN  /\ job[p].at = "write"
        /\ h >= hour /\ s >= outlay[m]
        /\ IF s = 0 THEN UNCHANGED <<hour, outlay, dir>>
           ELSE /\ hour' = h /\ outlay' = [outlay EXCEPT ![m] = s]
                /\ dir' = dir \cup {Submission(p, h, s, r)}
        /\ job' = [job EXCEPT ![p] = NoJob]
        /\ UNCHANGED <<consent, secret, minted, pool, forked>>

-----------------------------------------------------------------------------
\* A submission that was edited after it was written.
Edited(f) == [f EXCEPT !.intact = FALSE, !.usd = @ + 1]

\* runPool over all submissions, one of which may have been edited, in whatever
\* order they are named.
runPool ==
    /\ given = {} /\ dir # {} /\ \A p \in Proc : job[p] = NoJob
    /\ given' \in {dir} \cup {(dir \ {f}) \cup {Edited(f)} : f \in dir}
    /\ pooling' = TRUE /\ todo' = given'
    /\ roster' = <<>> /\ superseded' = <<>> /\ refused' = {}
    /\ UNCHANGED <<world, secret, minted, job, dir, forked>>

\* Pool.Add refuses what does not match its digest, and rules other than those
\* of the first row.  Files are distinct, so no digest comes twice.
Addable(c) ==
    /\ c.intact
    /\ roster # <<>> => roster[1].rules = c.rules

\* Slip: a source is known by its digest alone, so none is ever met again.
SameSourceByDigest(c) == {i \in DOMAIN roster : roster[i] = c}

\* The row of the same source, if there is one.
SameSource(c) == {i \in DOMAIN roster : roster[i].tag = c.tag}

Newer(e, c) == c.taken > e.taken

\* Pool.Add of one file; a refusal is reported and the run goes on.
Add(c) ==
    /\ pooling /\ c \in todo
    /\ todo' = todo \ {c}
    /\ \/ /\ ~ Addable(c)
          /\ refused' = refused \cup {c} /\ UNCHANGED <<roster, superseded>>
       \/ /\ Addable(c) /\ SameSource(c) = {}
          /\ roster' = Append(roster, c) /\ UNCHANGED <<superseded, refused>>
       \/ /\ Addable(c)
          /\ \E i \in SameSource(c) :
                \/ /\ roster[i].taken = c.taken
                   /\ refused' = refused \cup {c} /\ UNCHANGED <<roster, superseded>>
                \/ /\ roster[i].taken # c.taken /\ ~ Newer(roster[i], c)
                   /\ superseded' = Append(superseded, c) /\ UNCHANGED <<roster, refused>>
                \/ /\ roster[i].taken # c.taken /\ Newer(roster[i], c)
                   /\ superseded' = Append(superseded, roster[i])
                   /\ roster' = [roster EXCEPT ![i] = c] /\ UNCHANGED refused
    /\ UNCHANGED <<world, secret, minted, job, dir, given, pooling, forked>>

Published ==
    /\ pooling /\ todo = {} /\ pooling' = FALSE
    /\ UNCHANGED <<world, secret, minted, job, dir, given, todo, roster, superseded,
                   refused, forked>>

\* Machines go about their work until their submissions are pooled.
Contributing ==
    /\ given = {}
    /\ \/ \E m \in Machine :
             \/ DeleteShort(m)
             \/ \E p \in Proc : contributeCorpus(p, m)
       \/ \E p \in Proc : contributorSecret(p) \/ MintKilled(p)
       \/ \E p \in Proc, h \in 0..MaxHour, s \in 0..MaxSpent, r \in Rules :
             WriteCorpus(p, h, s, r)

Pooling == runPool \/ Published \/ \E c \in todo : Add(c)

PoolNext == Contributing \/ Pooling

PoolSpec == PoolInit /\ [][PoolNext]_poolVars

-----------------------------------------------------------------------------
(* Properties.                                                                *)

PoolTypeOK ==
    /\ hour \in 0..MaxHour
    /\ \A m \in Machine : outlay[m] \in 0..MaxSpent
    /\ \A p \in Proc : job[p].at \in {"idle", "mint", "write"}
    /\ todo \subseteq given /\ pooling \in BOOLEAN

Read == pooling /\ todo = {}

\* The dollars of the published total.
Pooled == SumFunction([i \in DOMAIN roster |-> roster[i].usd])

\* The pooled total never counts a machine twice, so it is never more than the
\* machines have spent, whatever was resubmitted, edited or pooled in which
\* order; only a machine that wrote two secrets looks like two (Pool.Add,
\* contributorSecret).
CountedOnce ==
    /\ \A i, j \in DOMAIN roster :
          i # j /\ roster[i].machine = roster[j].machine => roster[i].machine \in forked
    /\ forked = {} => Pooled <= SumFunctionOnSet(outlay, Machine)

\* When every file has been read, each is in the roster, displaced or refused,
\* and each row is the newest submission of its source that was not refused;
\* if none was refused the roster does not depend on the order of the files.
NewestOfEach ==
    Read =>
        /\ Len(roster) + Len(superseded) + Cardinality(refused)
               = Cardinality(ToSet(roster) \cup ToSet(superseded) \cup refused)
        /\ ToSet(roster) \cup ToSet(superseded) \cup refused = given
        /\ \A i \in DOMAIN roster, s \in ToSet(superseded) :
              s.tag = roster[i].tag => s.taken < roster[i].taken
        /\ refused = {} =>
              ToSet(roster) = {c \in given : \A d \in given : d.tag = c.tag => d.taken <= c.taken}

\* The pooled total counts no machine twice, and the pool keeps the newest
\* submission of each source.
PooledOnce == PoolTypeOK /\ CountedOnce /\ NewestOfEach

=============================================================================
