------------------------------ MODULE LedgerLog ------------------------------
(***************************************************************************)
(* What a session's ledger file promises its readers: a log of records     *)
(* that grows at its end.  A record lands whole or not at all; until its   *)
(* newline is written it is provisional, and a later write that runs into  *)
(* an unfinished tail spoils the tail and the record that was being added, *)
(* never an earlier one.  A purge replaces the log by a copy taken when it *)
(* read the file, without the records of one session.                      *)
(***************************************************************************)
EXTENDS Integers, Sequences

CONSTANTS
    Rec,        \* records
    SessionOf,  \* the session of each record
    Old         \* records of an earlier schema, which no reader obtains

VARIABLES
    log,        \* the records a reader of the whole file obtains, in order
    tail,       \* how the file ends
    draft       \* the copy a purge will put in place, if there is one: a set

vars == <<log, tail, draft>>

\* The entries of s that are in S, in their order.
Only(s, S) ==
    LET upTo[i \in 0..Len(s)] ==
          IF i = 0 THEN <<>>
          ELSE IF s[i] \in S THEN Append(upTo[i - 1], s[i]) ELSE upTo[i - 1]
    IN upTo[Len(s)]

Without(s, records) == Only(records, {r \in Rec : SessionOf[r] # s})

Init == log = <<>> /\ tail = "clean" /\ draft = {}

\* Some bytes of a record are in the file, not enough to be one.
Begin == tail = "clean" /\ tail' = "partial" /\ UNCHANGED <<log, draft>>

\* The record can be read; whether it is final depends on its newline.
Land(r) ==
    /\ tail \in {"clean", "partial"}
    /\ log' = Append(log, r)
    /\ tail' \in {"open", "clean"}
    /\ UNCHANGED draft

Finish == tail = "open" /\ tail' = "clean" /\ UNCHANGED <<log, draft>>

\* A write runs into an unfinished tail: what stood there is no record any
\* more, and neither is the one being written.
Spoil ==
    /\ tail \in {"partial", "open", "spoiled"}
    /\ log' = IF tail = "open" THEN SubSeq(log, 1, Len(log) - 1) ELSE log
    /\ tail' \in {"spoiled", "clean"}
    /\ UNCHANGED draft

Copy(s) ==
    /\ draft = {}
    /\ draft' = {Without(s, log)}
    /\ UNCHANGED <<log, tail>>

Replace ==
    /\ draft # {}
    /\ log' \in draft /\ tail' = "clean" /\ draft' = {}

GiveUp == draft # {} /\ draft' = {} /\ UNCHANGED <<log, tail>>

Remove == log' = <<>> /\ tail' = "clean" /\ UNCHANGED draft

Next ==
    \/ Begin \/ Finish \/ Spoil \/ Replace \/ GiveUp \/ Remove
    \/ \E r \in Rec : Land(r)
    \/ \E r \in Rec \cup Old : Copy(SessionOf[r])

Spec == Init /\ [][Next]_vars

=============================================================================
