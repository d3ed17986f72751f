------------------------------- MODULE PolicyPin -------------------------------
(***************************************************************************)
(* A session's policy decision: made at its first request, pinned in       *)
(* memory and on disk, applied to every later request, and the guardrail   *)
(* that reverts a learned policy (internal/proxy/policyinject.go, trial.go, *)
(* pinned/pin/trialSession in state.go, Pin/SetPin/Revert/SetRevert/Open   *)
(* in internal/ledger/store.go).                                           *)
(*                                                                         *)
(* applyPolicy is not one critical section: the in-memory pin, the pin     *)
(* store, the policy file, the revert record and the two writes are each   *)
(* reached on their own, so requests interleave between them.  A policy is *)
(* named by the instant its file was generated.                            *)
(***************************************************************************)
EXTENDS Integers, FiniteSets
LOCAL INSTANCE TLC

CONSTANTS
    Session, Req,
    Treated,        \* sessions whose id hashes into the treated share
    RevertAfter,    \* TrialSettings.RevertAfter
    Overlap,        \* requests of one session may be in flight together
    MaxFail,        \* bound: writes to the ledger directory that fail
    MayForget,      \* sessions may be evicted and the proxy restarted
    MaxClock        \* bound: instants of a behaviour

ASSUME PinAssumption ==
    /\ Treated \subseteq Session
    /\ RevertAfter \in Nat \ {0} /\ MaxClock \in Nat
    /\ MaxFail \in Nat /\ Overlap \in BOOLEAN /\ MayForget \in BOOLEAN

VARIABLES
    clock,      \* the wall clock, advanced by each run of replay learn
    flag,       \* this process was started with --context-edit
    file,       \* generation of the policy file in place, NoEdit if none
    mem,        \* sessionState: pin and breached flag, per session
    store,      \* Store.pins
    disk,       \* what loadPins would read back from .pins
    fails,      \* writes that have failed
    torn,       \* .pins ends in the middle of a line
    revert,     \* the one revert record: At and PolicyGenerated, 0 if none
    breaches,   \* sessions counted against each policy, stats.breaches
    reverted,   \* stats.reverted: policies this process has reverted
    pc, sess, pin, seen,    \* per request: step, session, decision, file read
    \* What happened, for the properties only:
    used,       \* decisions the session's requests were sent under
    frail,      \* "memory" once a session's pin missed the file, "lost" once it
                \* was then forgotten
    counted     \* which sessions were counted against each policy, ever

vars == <<clock, flag, file, mem, store, disk, torn, fails, revert, breaches, reverted,
          pc, sess, pin, seen, used, frail, counted>>
fileVars == <<store, disk, torn, fails, frail>>
trialVars == <<revert, breaches, reverted, counted>>

NoEdit == 0
FlagEdit == -1
NoSession == "none"
Gen == 1..MaxClock
NoPin == [edit |-> NoEdit, decision |-> "undecided", generated |-> 0]
Forgotten == [pin |-> NoPin, breached |-> FALSE]
NoRevert == [at |-> 0, generated |-> 0]

Decided(edit, decision, generated) ==
    [edit |-> edit, decision |-> decision, generated |-> generated]

Init ==
    /\ clock = 0 /\ file = NoEdit /\ flag \in BOOLEAN
    /\ mem = [s \in Session |-> Forgotten]
    /\ store = [s \in Session |-> NoPin] /\ disk = store /\ torn = FALSE
    /\ fails = 0
    /\ revert = NoRevert
    /\ breaches = [g \in Gen |-> 0] /\ reverted = {}
    /\ pc = [r \in Req |-> "idle"]
    /\ sess = [r \in Req |-> NoSession]
    /\ pin = [r \in Req |-> NoPin]
    /\ seen = [r \in Req |-> NoEdit]
    /\ used = [s \in Session |-> {}]
    /\ frail = [s \in Session |-> "no"]
    /\ counted = [g \in Gen |-> {}]

Active(s) == {r \in Req : pc[r] # "idle" /\ sess[r] = s}

Goto(r, step) == pc' = [pc EXCEPT ![r] = step]

\* The handler returns and its locals are gone.
Return(r) ==
    /\ Goto(r, "idle")
    /\ sess' = [sess EXCEPT ![r] = NoSession]
    /\ pin' = [pin EXCEPT ![r] = NoPin]
    /\ seen' = [seen EXCEPT ![r] = NoEdit]

-----------------------------------------------------------------------------
(* applyPolicy *)

\* stats.pinned: a decision made in this process is used as it is.
Lookup(r, s) ==
    /\ pc[r] = "idle" /\ (Overlap \/ Active(s) = {})
    /\ sess' = [sess EXCEPT ![r] = s]
    /\ IF mem[s].pin # NoPin
       THEN pin' = [pin EXCEPT ![r] = mem[s].pin] /\ Goto(r, "send")
       ELSE pin' = [pin EXCEPT ![r] = NoPin] /\ Goto(r, "persisted?")
    /\ UNCHANGED <<clock, flag, file, mem, fileVars, trialVars, seen, used>>

\* decidePolicy: a pin of an earlier process wins.  It carries no generation,
\* so the guardrail does not judge the session again.
ReadPersisted(r) ==
    LET p == store[sess[r]]
    IN /\ pc[r] = "persisted?"
       /\ IF p # NoPin
          THEN /\ pin' = [pin EXCEPT ![r] = Decided(p.edit, p.decision, 0)]
               /\ Goto(r, "pin")
          ELSE UNCHANGED pin /\ Goto(r, "read file")
       /\ UNCHANGED <<clock, flag, file, mem, fileVars, trialVars, sess, seen, used>>

\* policyFromFile.
ReadFile(r) ==
    /\ pc[r] = "read file"
    /\ seen' = [seen EXCEPT ![r] = file]
    /\ Goto(r, "decide")
    /\ UNCHANGED <<clock, flag, file, mem, fileVars, trialVars, sess, pin, used>>

\* Slip: the revert record is not consulted.
trialPolicyUnreverted(s, g, admissible) ==
    IF g = NoEdit THEN Decided(NoEdit, "not configured", 0)
    ELSE IF s \notin Treated THEN Decided(NoEdit, "control", 0)
    ELSE Decided(g, IF admissible THEN "applied" ELSE "inadmissible", g)

\* trialPolicy, and the admissibility of the first request: no file, a revert
\* at or after the file's generation, a control, or the policy.
trialPolicy(s, g, admissible) ==
    IF g = NoEdit THEN Decided(NoEdit, "not configured", 0)
    ELSE IF revert # NoRevert /\ ~(g > revert.at) THEN Decided(NoEdit, "reverted", 0)
    ELSE IF s \notin Treated THEN Decided(NoEdit, "control", 0)
    ELSE Decided(g, IF admissible THEN "applied" ELSE "inadmissible", g)

\* The user's own flag comes before the file, and is never split or reverted.
Decide(r, admissible) ==
    /\ pc[r] = "decide"
    /\ pin' = [pin EXCEPT ![r] =
                 IF flag
                 THEN Decided(FlagEdit, IF admissible THEN "applied" ELSE "inadmissible", 0)
                 ELSE trialPolicy(sess[r], seen[r], admissible)]
    /\ Goto(r, "persist")
    /\ UNCHANGED <<clock, flag, file, mem, fileVars, trialVars, sess, seen, used>>

\* Slip: the decision is kept in memory only.
SetPinSkipped(r) ==
    /\ pc[r] = "persist"
    /\ Goto(r, "pin")
    /\ UNCHANGED <<clock, flag, file, mem, fileVars, trialVars, sess, pin, seen, used>>

Missed(s) == frail' = [frail EXCEPT ![s] = IF @ = "lost" THEN @ ELSE "memory"]

\* SetPin appends a line; the last line of a session wins when it is read back.
\* After an unfinished line the new one is glued to it and neither parses.
SetPin(r) ==
    /\ pc[r] = "persist"
    /\ store' = [store EXCEPT ![sess[r]] = pin[r]]
    /\ disk' = IF torn THEN disk ELSE [disk EXCEPT ![sess[r]] = pin[r]]
    /\ IF torn THEN Missed(sess[r]) ELSE UNCHANGED frail
    /\ torn' = FALSE
    /\ Goto(r, "pin")
    /\ UNCHANGED <<clock, flag, file, mem, fails, trialVars, sess, pin, seen, used>>

\* The write fails, having written nothing or part of the line: fail open.
SetPinFails(r) ==
    /\ fails < MaxFail /\ fails' = fails + 1 /\ pc[r] = "persist"
    /\ torn' \in {torn, TRUE}
    /\ Missed(sess[r])
    /\ Goto(r, "pin")
    /\ UNCHANGED <<clock, flag, file, mem, store, disk, trialVars, sess, pin, seen, used>>

\* stats.pin: a decision already made is kept, and the request goes on with the
\* one it made itself.
PinInMemory(r) ==
    LET s == sess[r]
    IN /\ pc[r] = "pin"
       /\ mem' = IF mem[s].pin = NoPin THEN [mem EXCEPT ![s].pin = pin[r]] ELSE mem
       /\ Goto(r, "send")
       /\ UNCHANGED <<clock, flag, file, fileVars, trialVars, sess, pin, seen, used>>

\* The request goes out under its decision.
Send(r) ==
    /\ pc[r] = "send"
    /\ used' = [used EXCEPT ![sess[r]] = @ \cup {<<pin[r].edit, pin[r].decision>>}]
    /\ Goto(r, "answered")
    /\ UNCHANGED <<clock, flag, file, mem, fileVars, trialVars, sess, pin, seen>>

-----------------------------------------------------------------------------
(* The guardrail, in the bookkeeping after the response *)

\* trialSession: only a treated session this process started is judged.
trialSession(s) ==
    mem[s].pin.decision = "applied" /\ mem[s].pin.edit # NoEdit /\ mem[s].pin.generated # 0

\* The session's re-reads stay under the guardrail, or it is not judged.
Finish(r) ==
    /\ pc[r] = "answered"
    /\ Return(r)
    /\ UNCHANGED <<clock, flag, file, mem, fileVars, trialVars, used>>

\* breached: the request now holds the policy the session was pinned to.
Judge(r) ==
    /\ pc[r] = "answered" /\ trialSession(sess[r])
    /\ pin' = [pin EXCEPT ![r] = mem[sess[r]].pin]
    /\ Goto(r, "breach")
    /\ UNCHANGED <<clock, flag, file, mem, fileVars, trialVars, sess, seen, used>>

\* Slip: every breaching request of a session counts.
noteBreachEveryTime(r, written) ==
    LET g == pin[r].edit
        n == breaches[g] + 1
    IN /\ pc[r] = "breach" /\ written /\ n <= RevertAfter
       /\ mem' = [mem EXCEPT ![sess[r]].breached = TRUE]
       /\ breaches' = [breaches EXCEPT ![g] = n]
       /\ counted' = [counted EXCEPT ![g] = @ \cup {sess[r]}]
       /\ IF n >= RevertAfter
          THEN /\ revert' = [at |-> clock, generated |-> pin[r].generated]
               /\ reverted' = reverted \cup {g}
          ELSE UNCHANGED <<revert, reverted>>
       /\ Return(r)
       /\ UNCHANGED <<clock, flag, file, fileVars, used>>

\* noteBreach: a session that was not evicted meanwhile counts once, and enough
\* sessions revert the policy for new sessions; a revert that cannot be written
\* is tried again by the next session that breaches.
noteBreach(r, written) ==
    LET s == sess[r]
        g == pin[r].edit
        n == breaches[g] + 1
        counts == mem[s].pin # NoPin /\ ~mem[s].breached
        reverts == n >= RevertAfter /\ g \notin reverted
    IN /\ pc[r] = "breach"
       /\ written \/ (counts /\ reverts /\ fails < MaxFail)
       /\ IF ~counts
          THEN UNCHANGED <<mem, trialVars>>
          ELSE /\ mem' = [mem EXCEPT ![s].breached = TRUE]
               /\ breaches' = [breaches EXCEPT ![g] = n]
               /\ counted' = [counted EXCEPT ![g] = @ \cup {s}]
               /\ IF reverts /\ written
                  THEN /\ revert' = [at |-> clock, generated |-> pin[r].generated]
                       /\ reverted' = reverted \cup {g}
                  ELSE UNCHANGED <<revert, reverted>>
       /\ fails' = IF written THEN fails ELSE fails + 1
       /\ Return(r)
       /\ UNCHANGED <<clock, flag, file, store, disk, torn, frail, used>>

-----------------------------------------------------------------------------
(* The world around the proxy *)

\* replay learn writes a newer policy file.
Learn ==
    /\ clock < MaxClock
    /\ clock' = clock + 1 /\ file' = clock + 1
    /\ UNCHANGED <<flag, mem, fileVars, trialVars, pc, sess, pin, seen, used>>

\* The bounded session table drops a session.
Evict(s) ==
    /\ MayForget /\ mem[s] # Forgotten
    /\ mem' = [mem EXCEPT ![s] = Forgotten]
    /\ frail' = IF frail[s] # "no" /\ store[s] = NoPin
                THEN [frail EXCEPT ![s] = "lost"] ELSE frail
    /\ UNCHANGED <<clock, flag, file, store, disk, torn, fails, trialVars, pc, sess, pin, seen, used>>

\* The process ends at any point and another starts: Open reads the pins and
\* the revert back; counts of breaches start over.
Restart ==
    /\ MayForget
    /\ mem' = [s \in Session |-> Forgotten]
    /\ store' = disk
    /\ breaches' = [g \in Gen |-> 0] /\ reverted' = {}
    /\ pc' = [r \in Req |-> "idle"]
    /\ sess' = [r \in Req |-> NoSession]
    /\ pin' = [r \in Req |-> NoPin] /\ seen' = [r \in Req |-> NoEdit]
    /\ flag' \in BOOLEAN
    /\ frail' = [s \in Session |-> IF frail[s] = "no" THEN "no" ELSE "lost"]
    /\ UNCHANGED <<clock, file, disk, torn, fails, revert, counted, used>>

Next ==
    \/ \E r \in Req :
         \/ \E s \in Session : Lookup(r, s)
         \/ ReadPersisted(r) \/ ReadFile(r)
         \/ \E admissible \in BOOLEAN : Decide(r, admissible)
         \/ SetPin(r) \/ SetPinFails(r) \/ PinInMemory(r) \/ Send(r)
         \/ Finish(r) \/ Judge(r)
         \/ \E written \in BOOLEAN : noteBreach(r, written)
    \/ \E s \in Session : Evict(s)
    \/ Learn \/ Restart

Spec == Init /\ [][Next]_vars

-----------------------------------------------------------------------------
PinType ==
    [edit : {NoEdit, FlagEdit} \cup Gen, generated : {NoEdit} \cup Gen,
     decision : {"undecided", "not configured", "reverted", "control", "applied", "inadmissible"}]

MemType == [pin : PinType, breached : BOOLEAN]
RevertType == [at : 0..MaxClock, generated : 0..MaxClock]
Steps == {"idle", "persisted?", "read file", "decide", "persist", "pin", "send", "answered", "breach"}

\* The state is well typed; a decision is one of the six the record names.
TypeOK ==
    /\ clock \in 0..MaxClock /\ file \in 0..MaxClock /\ fails \in 0..MaxFail
    /\ flag \in BOOLEAN /\ torn \in BOOLEAN
    /\ mem \in [Session -> MemType]
    /\ store \in [Session -> PinType] /\ disk \in [Session -> PinType]
    /\ revert \in RevertType /\ breaches \in [Gen -> Nat] /\ reverted \subseteq Gen
    /\ pc \in [Req -> Steps] /\ sess \in [Req -> Session \cup {NoSession}]
    /\ pin \in [Req -> PinType] /\ seen \in [Req -> 0..MaxClock]
    /\ counted \in [Gen -> SUBSET Session]
    /\ frail \in [Session -> {"no", "memory", "lost"}]

\* PX-8: all requests of a session are sent under one decision with one set of
\* parameters, across rewrites of the policy file, reverts, evictions of the
\* session and restarts at any point.  A pin that could not be written holds
\* for as long as the process remembers the session.
OneDecision == TypeOK /\ \A s \in Session : frail[s] # "lost" => Cardinality(used[s]) <= 1

\* No session's decision was both unwritten and forgotten.
NoneLost == \A s \in Session : frail[s] # "lost"

\* A policy is reverted only on the evidence of enough distinct sessions that
\* ran under it.
RevertEarned ==
    NoneLost /\ revert # NoRevert
        => Cardinality(counted[revert.generated]) >= RevertAfter

\* No request goes out under a reverted policy unless its session was decided
\* before the revert: a decision made from the file after the revert does not
\* apply it.
RevertHolds ==
    [][\A r \in Req : pc[r] = "decide" /\ pc'[r] = "persist" /\ pin'[r].decision = "applied" /\ ~flag
          => pin'[r].edit \notin reverted /\ pin'[r].edit # revert.generated]_vars

\* Symmetry of a small instance; sound where every session is in the treated
\* share.
Interchangeable == Permutations(Session) \cup Permutations(Req)

=============================================================================
