---------------------------- MODULE PolicyPinProofs ----------------------------
(***************************************************************************)
(* One decision per session, and reverts that are earned and hold.         *)
(*                                                                         *)
(* Three inductive invariants, one on top of the other.  Dated: no pin, no *)
(* file and no revert is of a later instant than now, and what this        *)
(* process has reverted is covered by the one revert record.  Kept and     *)
(* Carries: where a session's decision is at each step of applyPolicy, in  *)
(* memory, in the pin store, in the file, or in the hands of its request.  *)
(* Tallied: a session counted against a policy cannot be counted again.    *)
(*                                                                         *)
(* At the end, the replay of a lane under the lifetimes a policy sets.     *)
(***************************************************************************)
EXTENDS PolicyPin, Replayer, FiniteSetTheorems, TLAPS

\* A pin names no later policy than the newest, and carries the generation of
\* the policy it applies or none.
PinDated(p, now) == p.edit <= now /\ (p.generated # 0 => p.generated = p.edit)

\* The types of what is not a switch, a request's own, or the trial's.
ClockTyped == clock \in 0..MaxClock /\ file \in 0..MaxClock /\ file <= clock
SwitchTyped == flag \in BOOLEAN /\ torn \in BOOLEAN /\ fails \in 0..MaxFail
FrailTyped == frail \in [Session -> {"no", "memory", "lost"}]

PinsDated ==
    /\ mem \in [Session -> MemType]
    /\ store \in [Session -> PinType] /\ disk \in [Session -> PinType]
    /\ \A s \in Session : /\ PinDated(mem[s].pin, clock) /\ PinDated(store[s], clock)
                          /\ PinDated(disk[s], clock)

RequestsDated ==
    /\ pc \in [Req -> Steps] /\ sess \in [Req -> Session \cup {NoSession}]
    /\ pin \in [Req -> PinType] /\ seen \in [Req -> 0..MaxClock]
    /\ \A r \in Req : /\ seen[r] <= clock /\ PinDated(pin[r], clock)
                      /\ pc[r] = "breach" => pin[r].generated # 0
                      /\ pc[r] # "idle" => sess[r] \in Session

RevertDated ==
    /\ revert \in RevertType /\ reverted \subseteq Gen /\ revert.at <= clock
    /\ revert # NoRevert => revert.generated \in Gen /\ revert.generated <= revert.at
    /\ \A g \in reverted : revert # NoRevert /\ g <= revert.at

CountsTyped == breaches \in [Gen -> Nat] /\ counted \in [Gen -> SUBSET Session]

DateInv ==
    /\ ClockTyped /\ SwitchTyped /\ FrailTyped /\ PinsDated /\ RequestsDated
    /\ RevertDated /\ CountsTyped

-----------------------------------------------------------------------------
\* What a pin that was never made looks like, and what a pin's fields are.
LEMMA PinFacts ==
  /\ NoPin \in PinType /\ NoPin.edit = 0 /\ NoPin.generated = 0 /\ NoPin.decision = "undecided"
  /\ \A now \in Nat : PinDated(NoPin, now)
  /\ \A p \in PinType : p.edit \in Int /\ p.generated \in Int
  /\ \A p \in PinType : p.generated # 0 /\ p.generated = p.edit => p.edit \in Gen
<1>1. NoPin \in PinType /\ NoPin.edit = 0 /\ NoPin.generated = 0 /\ NoPin.decision = "undecided"
  BY DEF NoPin, PinType, NoEdit
<1>2. ASSUME NEW p \in PinType PROVE p.edit \in Int /\ p.generated \in Int
  <2>1. p.edit \in {NoEdit, FlagEdit} \cup Gen /\ p.generated \in {NoEdit} \cup Gen
    BY DEF PinType
  <2>2. NoEdit \in Int /\ FlagEdit \in Int /\ Gen \subseteq Int
    BY PinAssumption DEF NoEdit, FlagEdit, Gen
  <2> QED BY <2>1, <2>2
<1>3. \A p \in PinType : p.generated # 0 /\ p.generated = p.edit => p.edit \in Gen
  BY PinAssumption DEF PinType, NoEdit, FlagEdit, Gen
<1> QED BY <1>1, <1>2, <1>3 DEF PinDated

\* What the table keeps of a session, and how a step may change it.
LEMMA MemFacts ==
  /\ Forgotten \in MemType /\ Forgotten.pin = NoPin /\ Forgotten.breached = FALSE
  /\ \A m \in MemType : m.pin \in PinType
  /\ \A m \in MemType, p \in PinType :
        /\ [m EXCEPT !.pin = p] \in MemType /\ [m EXCEPT !.pin = p].pin = p
        /\ [m EXCEPT !.pin = p].breached = m.breached
  /\ \A m \in MemType :
        /\ [m EXCEPT !.breached = TRUE] \in MemType
        /\ [m EXCEPT !.breached = TRUE].pin = m.pin /\ [m EXCEPT !.breached = TRUE].breached = TRUE
BY PinFacts DEF Forgotten, MemType

\* What trialPolicy decides: applied means a policy that no revert covers.
LEMMA TrialPolicyFacts ==
  ASSUME NEW s \in Session, NEW g \in 0 .. MaxClock, NEW a \in BOOLEAN
  PROVE  LET p == trialPolicy(s, g, a) IN
         /\ p \in PinType /\ p.decision # "undecided"
         /\ p.edit \in {NoEdit, g} /\ (p.generated # 0 => p.generated = p.edit)
         /\ p.decision = "applied" =>
               p.edit = g /\ g # NoEdit /\ (revert = NoRevert \/ g > revert.at)
BY PinAssumption DEF trialPolicy, Decided, PinType, NoEdit, Gen

\* What the user's own flag decides.
LEMMA FlagPolicyFacts ==
  ASSUME NEW d, d = Decided(FlagEdit, "applied", 0) \/ d = Decided(FlagEdit, "inadmissible", 0)
  PROVE  /\ d \in PinType /\ d.edit = FlagEdit /\ d.generated = 0
         /\ d.decision \in {"applied", "inadmissible"}
<1>1. CASE d = Decided(FlagEdit, "applied", 0)
  BY <1>1 DEF Decided, PinType, NoEdit
<1>2. CASE d = Decided(FlagEdit, "inadmissible", 0)
  BY <1>2 DEF Decided, PinType, NoEdit
<1> QED BY <1>1, <1>2

\* The invariant has the types the model claims.
LEMMA DateTypes == DateInv => TypeOK
  BY DEF DateInv, TypeOK, ClockTyped, SwitchTyped, FrailTyped, PinsDated, RequestsDated, RevertDated,
     CountsTyped

LEMMA InitDate == Init => DateInv
<1> SUFFICES ASSUME Init PROVE DateInv
  OBVIOUS
<1>1. ClockTyped /\ FrailTyped
  BY PinAssumption DEF Init, ClockTyped, FrailTyped, NoEdit
<1>2. SwitchTyped
  <2>1. flag \in BOOLEAN /\ torn \in BOOLEAN
    BY Zenon DEF Init
  <2>2. fails \in 0..MaxFail
    BY PinAssumption DEF Init
  <2> QED BY <2>1, <2>2 DEF SwitchTyped
<1>3. PinsDated
  BY PinFacts, MemFacts DEF Init, PinsDated
<1>4. RequestsDated
  <2>1. pin \in [Req -> PinType] /\ \A r \in Req : PinDated(pin[r], clock)
    BY PinFacts DEF Init
  <2>2. seen \in [Req -> 0..MaxClock] /\ \A r \in Req : seen[r] <= clock
    BY PinAssumption DEF Init, NoEdit
  <2> QED BY <2>1, <2>2 DEF Init, RequestsDated, Steps
<1>5. RevertDated /\ CountsTyped
  BY PinAssumption DEF Init, RevertDated, CountsTyped, NoRevert, RevertType
<1> QED BY <1>1, <1>2, <1>3, <1>4, <1>5 DEF DateInv

-----------------------------------------------------------------------------
\* A request that moves on with a pin of its own keeps the requests dated.
LEMMA RequestMoves ==
  ASSUME RequestsDated, ClockTyped, clock' = clock,
         NEW r \in Req, NEW to \in Steps, NEW p \in PinType, PinDated(p, clock), NEW s,
         s \in Session \/ (to = "idle" /\ s = NoSession), to = "breach" => p.generated # 0,
         pc' = [pc EXCEPT ![r] = to], pin' = [pin EXCEPT ![r] = p], sess' = [sess EXCEPT ![r] = s],
         NEW f \in 0..MaxClock, f <= clock, seen' = [seen EXCEPT ![r] = f]
  PROVE  RequestsDated'
<1>1. /\ pc' \in [Req -> Steps] /\ sess' \in [Req -> Session \cup {NoSession}]
      /\ pin' \in [Req -> PinType] /\ seen' \in [Req -> 0..MaxClock]
  BY DEF RequestsDated
<1>2. ASSUME NEW q \in Req
      PROVE  /\ seen'[q] <= clock /\ PinDated(pin'[q], clock)
             /\ pc'[q] = "breach" => pin'[q].generated # 0
             /\ pc'[q] # "idle" => sess'[q] \in Session
  <2>1. CASE q = r
    BY <2>1 DEF RequestsDated
  <2>2. CASE q # r
    BY <2>2 DEF RequestsDated
  <2> QED BY <2>1, <2>2
<1> QED BY <1>1, <1>2 DEF RequestsDated

\* What a request holds before it moves on.
LEMMA RequestHolds ==
  ASSUME RequestsDated, NEW r \in Req
  PROVE  /\ pc = [pc EXCEPT ![r] = pc[r]] /\ sess = [sess EXCEPT ![r] = sess[r]]
         /\ pin = [pin EXCEPT ![r] = pin[r]] /\ seen = [seen EXCEPT ![r] = seen[r]]
         /\ pin[r] \in PinType /\ PinDated(pin[r], clock)
         /\ seen[r] \in 0..MaxClock /\ seen[r] <= clock
         /\ pc[r] # "idle" => sess[r] \in Session
  BY DEF RequestsDated

\* A request that moves on with what it holds.
LEMMA RequestStays ==
  ASSUME RequestsDated, clock' = clock, NEW r \in Req, NEW to \in Steps, to # "breach",
         pc[r] # "idle", pc' = [pc EXCEPT ![r] = to], sess' = sess, pin' = pin, seen' = seen
  PROVE  RequestsDated'
<1>1. pc' \in [Req -> Steps]
  BY DEF RequestsDated
<1>2. \A q \in Req : /\ pc'[q] = "breach" => pc[q] = "breach"
                     /\ pc'[q] # "idle" => pc[q] # "idle"
  BY DEF RequestsDated
<1> QED BY <1>1, <1>2 DEF RequestsDated

\* A step that touches nothing but requests.
LEMMA OnlyRequests ==
  ASSUME DateInv, UNCHANGED <<clock, flag, file, mem, fileVars, trialVars>>, RequestsDated'
  PROVE  DateInv'
  BY DEF DateInv, fileVars, trialVars, ClockTyped, SwitchTyped, FrailTyped, PinsDated, RevertDated,
     CountsTyped

\* Every step keeps the state typed and dated.
LEMMA DateStep ==
  ASSUME DateInv, [Next]_vars
  PROVE  DateInv'
<1>0. /\ RequestsDated /\ ClockTyped /\ PinsDated /\ RevertDated /\ clock \in Nat
      /\ clock \in 0..MaxClock /\ MaxClock \in Nat
  BY PinAssumption DEF DateInv, ClockTyped
<1>1. ASSUME NEW r \in Req, NEW s \in Session, Lookup(r, s) PROVE DateInv'
  <2>1. CASE mem[s].pin # NoPin
    <3>1. mem[s].pin \in PinType /\ PinDated(mem[s].pin, clock)
      BY <1>0, MemFacts DEF PinsDated
    <3>2. RequestsDated'
      BY <1>0, <1>1, <2>1, <3>1, RequestHolds, RequestMoves DEF Lookup, Goto, Steps
    <3> QED BY <1>1, <3>2, OnlyRequests DEF Lookup
  <2>2. CASE ~(mem[s].pin # NoPin)
    <3>1. RequestsDated'
      BY <1>0, <1>1, <2>2, PinFacts, RequestHolds, RequestMoves DEF Lookup, Goto, Steps
    <3> QED BY <1>1, <3>1, OnlyRequests DEF Lookup
  <2> QED BY <2>1, <2>2
<1>2. ASSUME NEW r \in Req, ReadPersisted(r) PROVE DateInv'
  <2> DEFINE p == store[sess[r]]
  <2>1. sess[r] \in Session
    BY <1>0, <1>2, RequestHolds DEF ReadPersisted
  <2>2. CASE p # NoPin
    <3> DEFINE d == Decided(p.edit, p.decision, 0)
    <3>1. pc' = [pc EXCEPT ![r] = "pin"] /\ pin' = [pin EXCEPT ![r] = d] /\ sess' = sess /\ seen' = seen
      BY <1>2, <2>2 DEF ReadPersisted, Goto
    <3>2. p \in PinType /\ PinDated(p, clock)
      BY <1>0, <2>1 DEF PinsDated
    <3>3. d \in PinType /\ d.edit = p.edit /\ d.generated = 0
      BY <3>2 DEF Decided, PinType, NoEdit
    <3>4. PinDated(d, clock)
      BY <3>2, <3>3 DEF PinDated
    <3>5. clock' = clock
      BY <1>2 DEF ReadPersisted
    <3> HIDE DEF d
    <3>6. RequestsDated'
      BY <1>0, <2>1, <3>1, <3>3, <3>4, <3>5, RequestHolds, RequestMoves DEF Steps
    <3> QED BY <1>2, <3>6, OnlyRequests DEF ReadPersisted
  <2>3. CASE ~(p # NoPin)
    <3>2. /\ pc' = [pc EXCEPT ![r] = "read file"] /\ pin' = pin /\ sess' = sess /\ seen' = seen
          /\ clock' = clock
      BY <1>2, <2>3 DEF ReadPersisted, Goto
    <3>1. RequestsDated'
      BY <1>0, <1>2, <3>2, RequestStays DEF Steps, ReadPersisted
    <3> QED BY <1>2, <3>1, OnlyRequests DEF ReadPersisted
  <2> QED BY <2>2, <2>3
<1>3. ASSUME NEW r \in Req, ReadFile(r) PROVE DateInv'
  <2>1. sess[r] \in Session /\ file \in 0..MaxClock /\ file <= clock
    BY <1>0, <1>3, RequestHolds DEF ReadFile, ClockTyped
  <2>2. RequestsDated'
    BY <1>0, <1>3, <2>1, RequestHolds, RequestMoves DEF ReadFile, Goto, Steps
  <2> QED BY <1>3, <2>2, OnlyRequests DEF ReadFile
<1>4. ASSUME NEW r \in Req, NEW a \in BOOLEAN, Decide(r, a) PROVE DateInv'
  <2>1. sess[r] \in Session /\ seen[r] \in 0..MaxClock /\ seen[r] <= clock
    BY <1>0, <1>4, RequestHolds DEF Decide
  <2> DEFINE d == IF flag THEN Decided(FlagEdit, IF a THEN "applied" ELSE "inadmissible", 0)
                  ELSE trialPolicy(sess[r], seen[r], a)
  <2>2. d \in PinType /\ PinDated(d, clock)
    <3>1. CASE flag
      <4>1. d = Decided(FlagEdit, IF a THEN "applied" ELSE "inadmissible", 0)
        BY <3>1
      <4>3. d = Decided(FlagEdit, "applied", 0) \/ d = Decided(FlagEdit, "inadmissible", 0)
        BY <4>1, Zenon
      <4>2. d.edit = FlagEdit /\ d.generated = 0 /\ d \in PinType
        BY <4>3, FlagPolicyFacts
      <4> HIDE DEF d
      <4> QED BY <1>0, <4>2 DEF PinDated, FlagEdit
    <3>2. CASE ~flag
      <4>1. d = trialPolicy(sess[r], seen[r], a)
        BY <3>2
      <4> HIDE DEF d
      <4> QED BY <1>0, <2>1, <4>1, TrialPolicyFacts DEF PinDated, NoEdit
    <3> QED BY <3>1, <3>2
  <2>3. /\ pc' = [pc EXCEPT ![r] = "persist"] /\ pin' = [pin EXCEPT ![r] = d]
        /\ sess' = sess /\ seen' = seen /\ clock' = clock
    BY <1>4 DEF Decide, Goto
  <2> HIDE DEF d
  <2>4. RequestsDated'
    BY <1>0, <2>1, <2>2, <2>3, RequestHolds, RequestMoves DEF Steps
  <2> QED BY <1>4, <2>4, OnlyRequests DEF Decide
<1>5. ASSUME NEW r \in Req, SetPin(r) \/ SetPinFails(r) PROVE DateInv'
  <2>1. sess[r] \in Session /\ pin[r] \in PinType /\ PinDated(pin[r], clock)
    BY <1>0, <1>5, RequestHolds DEF SetPin, SetPinFails
  <2>2. /\ store' = [store EXCEPT ![sess[r]] = pin[r]] \/ store' = store
        /\ disk' = [disk EXCEPT ![sess[r]] = pin[r]] \/ disk' = disk
        /\ fails' = fails \/ (fails < MaxFail /\ fails' = fails + 1)
        /\ pc' = [pc EXCEPT ![r] = "pin"]
        /\ UNCHANGED <<clock, flag, file, mem, trialVars, sess, pin, seen>>
    BY <1>5 DEF SetPin, SetPinFails, Goto
  <2>3. torn' = FALSE \/ torn' = torn \/ torn' = TRUE
    BY <1>5 DEF SetPin, SetPinFails
  <2>4. SwitchTyped'
    <3>1. torn' \in BOOLEAN /\ flag' \in BOOLEAN
      BY <2>2, <2>3, Zenon DEF DateInv, SwitchTyped
    <3>2. fails' \in 0..MaxFail
      BY <2>2, PinAssumption DEF DateInv, SwitchTyped
    <3> QED BY <3>1, <3>2 DEF SwitchTyped
  <2>5. FrailTyped'
    BY <1>5 DEF SetPin, SetPinFails, Missed, DateInv, FrailTyped
  <2>6. PinsDated'
    <3>1. /\ store' \in [Session -> PinType] /\ disk' \in [Session -> PinType]
          /\ \A s \in Session : PinDated(store'[s], clock) /\ PinDated(disk'[s], clock)
      BY <1>0, <2>1, <2>2 DEF PinsDated
    <3> QED BY <1>0, <2>2, <3>1 DEF PinsDated
  <2>7. RequestsDated'
    BY <1>0, <2>1, <2>2, RequestHolds, RequestMoves DEF Steps
  <2>8. ClockTyped' /\ RevertDated' /\ CountsTyped'
    BY <2>2 DEF DateInv, trialVars, ClockTyped, RevertDated, CountsTyped
  <2> QED BY <2>4, <2>5, <2>6, <2>7, <2>8 DEF DateInv
<1>6. ASSUME NEW r \in Req, PinInMemory(r) PROVE DateInv'
  <2>1. sess[r] \in Session /\ pin[r] \in PinType /\ PinDated(pin[r], clock)
    BY <1>0, <1>6, RequestHolds DEF PinInMemory
  <2>2. /\ mem' = [mem EXCEPT ![sess[r]] = [mem[sess[r]] EXCEPT !.pin = pin[r]]] \/ mem' = mem
        /\ pc' = [pc EXCEPT ![r] = "send"]
        /\ UNCHANGED <<clock, flag, file, fileVars, trialVars, sess, pin, seen>>
    BY <1>6 DEF PinInMemory, Goto
  <2>3. PinsDated'
    <3>1. mem[sess[r]] \in MemType
      BY <1>0, <2>1 DEF PinsDated
    <3>2. [mem[sess[r]] EXCEPT !.pin = pin[r]] \in MemType /\ [mem[sess[r]] EXCEPT !.pin = pin[r]].pin = pin[r]
      BY <2>1, <3>1, MemFacts
    <3>3. mem' \in [Session -> MemType] /\ \A s \in Session : PinDated(mem'[s].pin, clock)
      BY <1>0, <2>1, <2>2, <3>2 DEF PinsDated
    <3> QED BY <1>0, <2>2, <3>3 DEF PinsDated, fileVars
  <2>4. RequestsDated'
    BY <1>0, <2>1, <2>2, RequestHolds, RequestMoves DEF Steps
  <2> QED BY <2>2, <2>3, <2>4 DEF DateInv, fileVars, trialVars, ClockTyped, SwitchTyped, FrailTyped,
             RevertDated, CountsTyped
<1>7. ASSUME NEW r \in Req, Send(r) PROVE DateInv'
  <2>2. RequestsDated'
    BY <1>0, <1>7, RequestStays DEF Send, Goto, Steps
  <2> QED BY <1>7, <2>2, OnlyRequests DEF Send
<1>8. ASSUME NEW r \in Req, Return(r), clock' = clock PROVE RequestsDated'
  <2>1. NoEdit \in 0..MaxClock /\ NoEdit <= clock
    BY <1>0 DEF NoEdit
  <2> QED BY <1>0, <1>8, <2>1, PinFacts, RequestMoves DEF Return, Goto, Steps
<1>9. ASSUME NEW r \in Req, Finish(r) PROVE DateInv'
  <2>1. RequestsDated'
    BY <1>8, <1>9 DEF Finish
  <2> QED BY <1>9, <2>1, OnlyRequests DEF Finish
<1>10. ASSUME NEW r \in Req, Judge(r) PROVE DateInv'
  <2>1. sess[r] \in Session
    BY <1>0, <1>10, RequestHolds DEF Judge
  <2>2. /\ mem[sess[r]].pin.generated # 0 /\ mem[sess[r]].pin \in PinType
        /\ PinDated(mem[sess[r]].pin, clock)
    BY <1>0, <1>10, <2>1, MemFacts DEF Judge, trialSession, PinsDated
  <2>3. RequestsDated'
    BY <1>0, <1>10, <2>1, <2>2, RequestHolds, RequestMoves DEF Judge, Goto, Steps
  <2> QED BY <1>10, <2>3, OnlyRequests DEF Judge
<1>11. ASSUME NEW r \in Req, NEW w \in BOOLEAN, noteBreach(r, w) PROVE DateInv'
  <2> DEFINE g == pin[r].edit
  <2>1. /\ pc[r] = "breach" /\ sess[r] \in Session /\ pin[r] \in PinType
        /\ g <= clock /\ pin[r].generated = g /\ pin[r].generated # 0
    BY <1>0, <1>11, RequestHolds DEF noteBreach, RequestsDated, PinDated
  <2>2. g \in Gen /\ g \in 1..MaxClock
    BY <2>1, PinFacts DEF Gen
  <2>3. /\ Return(r) /\ UNCHANGED <<clock, flag, file, store, disk, torn, frail, used>>
        /\ \/ mem' = [mem EXCEPT ![sess[r]] = [mem[sess[r]] EXCEPT !.breached = TRUE]]
           \/ mem' = mem
        /\ breaches' = [breaches EXCEPT ![g] = breaches[g] + 1] \/ breaches' = breaches
        /\ counted' = [counted EXCEPT ![g] = counted[g] \cup {sess[r]}] \/ counted' = counted
        /\ \/ revert' = [at |-> clock, generated |-> g] /\ reverted' = reverted \cup {g}
           \/ revert' = revert /\ reverted' = reverted
        /\ fails' = fails \/ (fails < MaxFail /\ fails' = fails + 1)
    <3>1. /\ Return(r) /\ UNCHANGED <<clock, flag, file, store, disk, torn, frail, used>>
          /\ fails' = fails \/ (fails < MaxFail /\ fails' = fails + 1)
      BY <1>11 DEF noteBreach
    <3>2. CASE UNCHANGED <<mem, trialVars>>
      BY <3>1, <3>2 DEF trialVars
    <3>3. CASE ~ UNCHANGED <<mem, trialVars>>
      BY <1>11, <2>1, <3>1, <3>3 DEF noteBreach
    <3> QED BY <3>2, <3>3
  <2>4. PinsDated'
    <3>1. mem[sess[r]] \in MemType
      BY <1>0, <2>1 DEF PinsDated
    <3> DEFINE m == [mem[sess[r]] EXCEPT !.breached = TRUE]
    <3>2. m \in MemType /\ m.pin = mem[sess[r]].pin
      BY <3>1, MemFacts
    <3>3. mem' = [mem EXCEPT ![sess[r]] = m] \/ mem' = mem
      BY <2>3
    <3> HIDE DEF m
    <3>4. mem' \in [Session -> MemType] /\ \A s \in Session : mem'[s].pin = mem[s].pin
      BY <1>0, <2>1, <3>2, <3>3 DEF PinsDated
    <3> QED BY <1>0, <2>3, <3>4 DEF PinsDated
  <2>5. RequestsDated'
    BY <1>8, <2>3
  <2>6. CountsTyped'
    BY <2>1, <2>2, <2>3 DEF DateInv, CountsTyped
  <2>7. RevertDated'
    <3>1. CASE revert' = [at |-> clock, generated |-> g] /\ reverted' = reverted \cup {g}
      <4>1. /\ revert'.at = clock /\ revert'.generated = g /\ revert' \in RevertType
            /\ revert' # NoRevert
        BY <1>0, <2>1, <2>2, <3>1 DEF NoRevert, RevertType
      <4>2. \A h \in reverted : h \in Int /\ revert.at \in Int /\ h <= clock
        BY <1>0 DEF RevertDated, Gen, RevertType
      <4> QED BY <1>0, <2>1, <2>2, <2>3, <3>1, <4>1, <4>2 DEF RevertDated
    <3>2. CASE revert' = revert /\ reverted' = reverted
      BY <1>0, <2>3, <3>2 DEF RevertDated
    <3> QED BY <2>3, <3>1, <3>2
  <2>8. SwitchTyped'
    <3>1. fails' \in 0..MaxFail
      BY <2>3, PinAssumption DEF DateInv, SwitchTyped
    <3> QED BY <2>3, <3>1 DEF DateInv, SwitchTyped
  <2> QED BY <2>3, <2>4, <2>5, <2>6, <2>7, <2>8 DEF DateInv, ClockTyped, FrailTyped
<1>12. CASE Learn
  <2>1. /\ clock' = clock + 1 /\ file' = clock + 1 /\ clock < MaxClock
        /\ UNCHANGED <<flag, mem, fileVars, trialVars, pc, sess, pin, seen>>
    BY <1>12 DEF Learn
  <2>2. \A p \in PinType : PinDated(p, clock) => PinDated(p, clock')
    BY <1>0, <2>1, PinFacts DEF PinDated
  <2>3. PinsDated'
    BY <1>0, <2>1, <2>2, MemFacts DEF PinsDated, fileVars
  <2>4. RequestsDated'
    BY <1>0, <2>1, <2>2 DEF RequestsDated
  <2>5. RevertDated'
    BY <1>0, <2>1 DEF RevertDated, trialVars, RevertType
  <2>6. ClockTyped'
    BY <1>0, <2>1 DEF ClockTyped
  <2> QED BY <2>1, <2>3, <2>4, <2>5, <2>6 DEF DateInv, fileVars, trialVars, SwitchTyped, FrailTyped, CountsTyped
<1>13. ASSUME NEW s \in Session, Evict(s) PROVE DateInv'
  <2>1. /\ mem' = [mem EXCEPT ![s] = Forgotten]
        /\ UNCHANGED <<clock, flag, file, store, disk, torn, fails, trialVars, pc, sess, pin, seen>>
    BY <1>13 DEF Evict
  <2>2. FrailTyped'
    BY <1>13 DEF Evict, DateInv, FrailTyped
  <2>3. PinsDated'
    BY <1>0, <2>1, MemFacts, PinFacts DEF PinsDated
  <2> QED BY <2>1, <2>2, <2>3 DEF DateInv, trialVars, ClockTyped, SwitchTyped, RequestsDated, RevertDated,
             CountsTyped
<1>14. CASE Restart
  <2>1. /\ mem' = [s \in Session |-> Forgotten] /\ store' = disk
        /\ breaches' = [g \in Gen |-> 0] /\ reverted' = {}
        /\ pc' = [r \in Req |-> "idle"] /\ sess' = [r \in Req |-> NoSession]
        /\ pin' = [r \in Req |-> NoPin] /\ seen' = [r \in Req |-> NoEdit]
        /\ flag' \in BOOLEAN
        /\ UNCHANGED <<clock, file, disk, torn, fails, revert, counted, used>>
    BY <1>14 DEF Restart
  <2>2. FrailTyped'
    BY <1>14 DEF Restart, DateInv, FrailTyped
  <2>3. PinsDated'
    BY <1>0, <2>1, MemFacts, PinFacts DEF PinsDated
  <2>4. RequestsDated'
    <3>1. pin' \in [Req -> PinType] /\ \A r \in Req : PinDated(pin'[r], clock)
      BY <1>0, <2>1, PinFacts
    <3>2. seen' \in [Req -> 0..MaxClock] /\ \A r \in Req : seen'[r] <= clock
      BY <1>0, <2>1 DEF NoEdit
    <3> QED BY <2>1, <3>1, <3>2 DEF RequestsDated, Steps
  <2> QED BY <1>0, <2>1, <2>2, <2>3, <2>4 DEF DateInv, ClockTyped, SwitchTyped, RevertDated, CountsTyped
<1>15. CASE UNCHANGED vars
  BY <1>15 DEF vars, DateInv, ClockTyped, SwitchTyped, FrailTyped, PinsDated, RequestsDated, RevertDated, CountsTyped
<1> QED BY <1>1, <1>2, <1>3, <1>4, <1>5, <1>6, <1>7, <1>9, <1>10, <1>11, <1>12, <1>13, <1>14, <1>15 DEF Next

-----------------------------------------------------------------------------
\* Only decidePolicy takes a request from the file to its decision.
LEMMA DecideDecides ==
  ASSUME DateInv, Next, NEW r \in Req, pc[r] = "decide", pc'[r] = "persist"
  PROVE  \E a \in BOOLEAN : Decide(r, a)
<1>0. pc \in [Req -> Steps]
  BY DEF DateInv, RequestsDated
<1>1. ASSUME NEW q \in Req, NEW to, to # "persist", Goto(q, to) PROVE FALSE
  BY <1>0, <1>1 DEF Goto
<1>2. ASSUME NEW q \in Req, NEW t \in Session, Lookup(q, t) PROVE FALSE
  BY <1>1, <1>2 DEF Lookup
<1>3. ASSUME NEW q \in Req, ReadPersisted(q) \/ ReadFile(q) \/ SetPin(q) \/ SetPinFails(q) PROVE FALSE
  BY <1>1, <1>3 DEF ReadPersisted, ReadFile, SetPin, SetPinFails
<1>4. ASSUME NEW q \in Req, PinInMemory(q) \/ Send(q) \/ Finish(q) \/ Judge(q) PROVE FALSE
  BY <1>1, <1>4 DEF PinInMemory, Send, Finish, Judge, Return
<1>5. ASSUME NEW q \in Req, NEW w \in BOOLEAN, noteBreach(q, w) PROVE FALSE
  BY <1>1, <1>5 DEF noteBreach, Return
<1>6. CASE Learn \/ (\E t \in Session : Evict(t)) \/ Restart
  BY <1>6 DEF Learn, Evict, Restart
<1>7. ASSUME NEW q \in Req, NEW a \in BOOLEAN, Decide(q, a) PROVE q = r
  BY <1>0, <1>7 DEF Decide, Goto
<1> QED BY <1>2, <1>3, <1>4, <1>5, <1>6, <1>7 DEF Next

\* A policy that was reverted is not applied by a decision made from the file
\* afterwards, across restarts, newer files and further reverts (trialPolicy,
\* noteBreach).
THEOREM RevertedStaysReverted == Spec => RevertHolds
<1>1. DateInv /\ [Next]_vars =>
        [\A r \in Req : pc[r] = "decide" /\ pc'[r] = "persist" /\ pin'[r].decision = "applied" /\ ~flag
              => pin'[r].edit \notin reverted /\ pin'[r].edit # revert.generated]_vars
  <2> SUFFICES ASSUME DateInv, Next
               PROVE  \A r \in Req :
                         pc[r] = "decide" /\ pc'[r] = "persist" /\ pin'[r].decision = "applied" /\ ~flag
                         => pin'[r].edit \notin reverted /\ pin'[r].edit # revert.generated
    BY Zenon
  <2> SUFFICES ASSUME NEW r \in Req, pc[r] = "decide", pc'[r] = "persist",
                      pin'[r].decision = "applied", ~flag
               PROVE  pin'[r].edit \notin reverted /\ pin'[r].edit # revert.generated
    BY Zenon
  <2>1. PICK a \in BOOLEAN : Decide(r, a)
    BY DecideDecides
  <2>2. sess[r] \in Session /\ seen[r] \in 0..MaxClock
    BY DEF DateInv, RequestsDated
  <2>3. pin'[r] = trialPolicy(sess[r], seen[r], a)
    BY <2>1 DEF Decide, DateInv, RequestsDated
  <2>4. /\ pin'[r].edit = seen[r] /\ seen[r] # 0
        /\ revert = NoRevert \/ seen[r] > revert.at
    BY <2>2, <2>3, TrialPolicyFacts DEF NoEdit
  <2>5. \A g \in reverted : revert # NoRevert /\ g <= revert.at /\ g \in Int /\ revert.at \in Int
    <3>1. revert.at \in Int
      BY PinAssumption DEF DateInv, RevertDated, RevertType
    <3>2. \A g \in Gen : g \in Int
      BY PinAssumption DEF Gen
    <3> QED BY <3>1, <3>2 DEF DateInv, RevertDated
  <2>6. seen[r] \notin reverted
    BY <2>2, <2>4, <2>5
  <2>7. seen[r] # revert.generated
    <3>1. CASE revert = NoRevert
      BY <2>4, <3>1 DEF NoRevert
    <3>2. CASE revert # NoRevert
      BY <2>2, <2>4, <3>2, PinAssumption DEF DateInv, RevertDated, RevertType, Gen
    <3> QED BY <3>1, <3>2
  <2> QED BY <2>4, <2>6, <2>7
<1> QED BY <1>1, InitDate, DateStep, PTL DEF Spec, RevertHolds

-----------------------------------------------------------------------------
(* One decision per session, where requests of one session do not overlap.  *)

dec(p) == <<p.edit, p.decision>>

\* What is known of a session whose decision was not lost: m its pin in memory,
\* st and dk its pin in the store and in the file, u what its requests were
\* sent under and f whether the pin is in the file.
Kept(m, st, dk, u, f) ==
    /\ st # NoPin => st.decision # "undecided"
    /\ dk # NoPin => dk.decision # "undecided"
    /\ f # "lost" =>
        /\ m = NoPin /\ st = NoPin => u = {}
        /\ m # NoPin => u \subseteq {dec(m)}
        /\ st # NoPin => u \subseteq {dec(st)}
        /\ m # NoPin /\ st # NoPin => dec(m) = dec(st)
        /\ f = "no" => dk = st /\ (st = NoPin => m = NoPin)

\* What is known of a request of such a session: c its step and p its pin.
Carries(c, p, m, st, u, f) ==
    /\ c \in {"persist", "pin"} => p.decision # "undecided"
    /\ f # "lost" =>
        /\ c \in {"persisted?", "read file", "decide", "persist", "pin"} => m = NoPin
        /\ c \in {"read file", "decide", "persist"} => st = NoPin
        /\ c \in {"pin", "send", "answered", "breach"} =>
              /\ u \subseteq {dec(p)}
              /\ st # NoPin => dec(st) = dec(p)
              /\ m # NoPin => dec(m) = dec(p)
        /\ c = "pin" => (st = NoPin => f = "memory") /\ (p.generated # 0 => u = {})
        /\ c \in {"send", "answered", "breach"} => st # NoPin \/ m # NoPin
        /\ c \in {"answered", "breach"} => u # {}
        /\ c = "breach" => m = NoPin \/ m = p

KeptOf(s) == Kept(mem[s].pin, store[s], disk[s], used[s], frail[s])
CarriesOf(r) ==
    Carries(pc[r], pin[r], mem[sess[r]].pin, store[sess[r]], used[sess[r]], frail[sess[r]])
Solo == \A q, r \in Req : pc[q] # "idle" /\ pc[r] # "idle" /\ sess[q] = sess[r] => q = r

KeepInv ==
    /\ DateInv /\ Solo
    /\ used = [s \in Session |-> used[s]]
    /\ \A s \in Session : KeptOf(s)
    /\ \A r \in Req : pc[r] # "idle" => CarriesOf(r)

LEMMA InitKeep == Init => KeepInv
<1> SUFFICES ASSUME Init PROVE KeepInv
  OBVIOUS
<1>1. DateInv
  BY InitDate
<1>2. Solo /\ \A r \in Req : pc[r] = "idle"
  BY DEF Init, Solo
<1>3. ASSUME NEW s \in Session PROVE KeptOf(s)
  <2>1. mem[s].pin = NoPin /\ store[s] = NoPin /\ disk[s] = NoPin /\ used[s] = {}
    BY MemFacts DEF Init
  <2> QED BY <2>1 DEF KeptOf, Kept
<1> QED BY <1>1, <1>2, <1>3 DEF KeepInv, Init

\* A step of one request r for its session s, whose only request it is.
LEMMA KeepFrame ==
  ASSUME KeepInv, DateInv', NEW r \in Req, NEW s \in Session,
         used' = [t \in Session |-> used'[t]],
         \A q \in Req : q # r /\ pc[q] # "idle" => sess[q] # s,
         \A q \in Req : q # r => pc'[q] = pc[q] /\ sess'[q] = sess[q] /\ pin'[q] = pin[q],
         \A t \in Session : t # s =>
             /\ mem'[t].pin = mem[t].pin /\ store'[t] = store[t] /\ disk'[t] = disk[t]
             /\ used'[t] = used[t] /\ frail'[t] = frail[t],
         pc'[r] # "idle" => sess'[r] = s,
         Kept(mem'[s].pin, store'[s], disk'[s], used'[s], frail'[s]),
         pc'[r] # "idle" => Carries(pc'[r], pin'[r], mem'[s].pin, store'[s], used'[s], frail'[s])
  PROVE  KeepInv'
<1>1. Solo'
  BY DEF KeepInv, Solo
<1>2. \A t \in Session : KeptOf(t)'
  BY DEF KeepInv, KeptOf
<1>3. ASSUME NEW q \in Req, pc'[q] # "idle" PROVE CarriesOf(q)'
  <2>1. CASE q = r
    BY <1>3, <2>1 DEF CarriesOf
  <2>2. CASE q # r
    <3>1. pc[q] # "idle" /\ sess[q] # s /\ sess[q] \in Session /\ CarriesOf(q)
      BY <1>3, <2>2 DEF KeepInv, DateInv, RequestsDated
    <3>2. /\ pc'[q] = pc[q] /\ sess'[q] = sess[q] /\ pin'[q] = pin[q]
          /\ mem'[sess[q]].pin = mem[sess[q]].pin /\ store'[sess[q]] = store[sess[q]]
          /\ used'[sess[q]] = used[sess[q]] /\ frail'[sess[q]] = frail[sess[q]]
      BY <2>2, <3>1
    <3> QED BY <3>1, <3>2 DEF CarriesOf
  <2> QED BY <2>1, <2>2
<1> QED BY <1>1, <1>2, <1>3 DEF KeepInv

\* One step of one request, as a change of what is known of its session.
LEMMA KeepMoves ==
  ASSUME NEW m, NEW st, NEW dk, NEW u, NEW f, NEW c, NEW p,
         Kept(m, st, dk, u, f), Carries(c, p, m, st, u, f)
  PROVE  /\ c = "persisted?" /\ st # NoPin =>
              \A q : dec(q) = dec(st) /\ q.generated = 0 => Carries("pin", q, m, st, u, f)
         /\ c = "persisted?" /\ st = NoPin => Carries("read file", p, m, st, u, f)
         /\ c = "read file" => Carries("decide", p, m, st, u, f)
         /\ c = "decide" => \A q : q.decision # "undecided" => Carries("persist", q, m, st, u, f)
         /\ c = "send" => LET v == u \cup {dec(p)}
                          IN  Kept(m, st, dk, v, f) /\ Carries("answered", p, m, st, v, f)
         /\ c = "answered" /\ m # NoPin => Carries("breach", m, m, st, u, f)
<1> QED BY DEF Kept, Carries, dec

\* SetPin, SetPinFails and stats.pin, in the same terms.
LEMMA PinMoves ==
  ASSUME NEW m, NEW st, NEW dk, NEW u, NEW f, NEW p,
         Kept(m, st, dk, u, f)
  PROVE  /\ Carries("persist", p, m, st, u, f) =>
              /\ Kept(m, p, p, u, f) /\ Carries("pin", p, m, p, u, f)
              /\ \A g \in {"memory", "lost"} : (f = "lost" => g = "lost") =>
                    /\ Kept(m, p, dk, u, g) /\ Carries("pin", p, m, p, u, g)
                    /\ Kept(m, st, dk, u, g) /\ Carries("pin", p, m, st, u, g)
         /\ Carries("pin", p, m, st, u, f) =>
              LET n == IF m = NoPin THEN p ELSE m
              IN  Kept(n, st, dk, u, f) /\ Carries("send", p, n, st, u, f)
<1> QED BY DEF Kept, Carries, dec, NoPin

\* The session is forgotten: by its eviction, or by a restart.
LEMMA ForgetMoves ==
  ASSUME NEW m, NEW st, NEW dk, NEW u, NEW f, Kept(m, st, dk, u, f)
  PROVE  /\ LET g == IF f # "no" /\ st = NoPin THEN "lost" ELSE f
            IN  /\ Kept(NoPin, st, dk, u, g)
                /\ \A c, p : Carries(c, p, m, st, u, f) => Carries(c, p, NoPin, st, u, g)
         /\ Kept(NoPin, dk, dk, u, IF f = "no" THEN "no" ELSE "lost")
<1> DEFINE g == IF f # "no" /\ st = NoPin THEN "lost" ELSE f
<1>1. Kept(NoPin, st, dk, u, g)
  BY DEF Kept
<1>2. ASSUME NEW c, NEW p, Carries(c, p, m, st, u, f) PROVE Carries(c, p, NoPin, st, u, g)
  <2>1. g # "lost" => f # "lost" /\ f = g /\ (st = NoPin => f = "no" /\ m = NoPin)
    BY DEF Kept
  <2> HIDE DEF g
  <2> QED BY <1>2, <2>1 DEF Carries
<1>3. Kept(NoPin, dk, dk, u, IF f = "no" THEN "no" ELSE "lost")
  BY DEF Kept
<1> QED BY <1>1, <1>2, <1>3

\* A step of a request r that changes nothing but its own step and pin.
LEMMA KeepQuiet ==
  ASSUME KeepInv, DateInv', NEW r \in Req, pc[r] # "idle", NEW c, NEW p, NEW n,
         \A t \in Session : mem'[t].pin = mem[t].pin,
         UNCHANGED <<store, disk, used, frail>>,
         pc' = [pc EXCEPT ![r] = c], pin' = [pin EXCEPT ![r] = p], sess' = [sess EXCEPT ![r] = n],
         c # "idle" => n = sess[r],
         c # "idle" => Carries(c, p, mem[sess[r]].pin, store[sess[r]], used[sess[r]], frail[sess[r]])
  PROVE  KeepInv'
<1>1. sess[r] \in Session /\ KeptOf(sess[r])
  BY DEF KeepInv, DateInv, RequestsDated
<1>2. \A q \in Req : q # r /\ pc[q] # "idle" => sess[q] # sess[r]
  BY DEF KeepInv, Solo
<1>3. pc \in [Req -> Steps] /\ sess \in [Req -> Session \cup {NoSession}] /\ pin \in [Req -> PinType]
  BY DEF KeepInv, DateInv, RequestsDated
<1>4. pc'[r] = c /\ sess'[r] = n /\ pin'[r] = p
  BY <1>3
<1>5. \A q \in Req : q # r => pc'[q] = pc[q] /\ sess'[q] = sess[q] /\ pin'[q] = pin[q]
  BY <1>3
<1>6. Kept(mem'[sess[r]].pin, store'[sess[r]], disk'[sess[r]], used'[sess[r]], frail'[sess[r]])
  BY <1>1 DEF KeptOf
<1>7. used' = [t \in Session |-> used'[t]]
  BY DEF KeepInv
<1> QED BY <1>1, <1>2, <1>4, <1>5, <1>6, <1>7, KeepFrame

LEMMA KeepStep ==
  ASSUME Overlap = FALSE, KeepInv, [Next]_vars
  PROVE  KeepInv'
<1>1. DateInv /\ DateInv'
  BY DateStep DEF KeepInv
<1>2. /\ pc \in [Req -> Steps] /\ sess \in [Req -> Session \cup {NoSession}] /\ pin \in [Req -> PinType]
      /\ mem \in [Session -> MemType] /\ store \in [Session -> PinType] /\ disk \in [Session -> PinType]
      /\ frail \in [Session -> {"no", "memory", "lost"}]
      /\ used = [s \in Session |-> used[s]]
  BY <1>1 DEF KeepInv, DateInv, RequestsDated, PinsDated, FrailTyped
<1>3. ASSUME NEW r \in Req, pc[r] # "idle"
      PROVE  /\ sess[r] \in Session /\ KeptOf(sess[r]) /\ CarriesOf(r)
             /\ \A q \in Req : q # r /\ pc[q] # "idle" => sess[q] # sess[r]
             /\ sess = [sess EXCEPT ![r] = sess[r]] /\ pin = [pin EXCEPT ![r] = pin[r]]
  BY <1>1, <1>2, <1>3 DEF KeepInv, Solo, DateInv, RequestsDated
<1>4. ASSUME NEW r \in Req, NEW s \in Session, Lookup(r, s) PROVE KeepInv'
  <2>1. /\ \A q \in Req : q # r /\ pc[q] # "idle" => sess[q] # s
        /\ KeptOf(s)
    BY <1>4 DEF Lookup, Active, KeepInv
  <2>2. \A q \in Req : q # r => pc'[q] = pc[q] /\ sess'[q] = sess[q] /\ pin'[q] = pin[q]
    BY <1>2, <1>4 DEF Lookup, Goto
  <2>3. UNCHANGED <<mem, store, disk, used, frail>> /\ sess'[r] = s
    BY <1>2, <1>4 DEF Lookup, fileVars
  <2>4. Carries(pc'[r], pin'[r], mem[s].pin, store[s], used[s], frail[s])
    <3>1. CASE mem[s].pin # NoPin
      <4>1. pc'[r] = "send" /\ pin'[r] = mem[s].pin
        BY <1>2, <1>4, <3>1 DEF Lookup, Goto
      <4> QED BY <2>1, <3>1, <4>1 DEF KeptOf, Kept, Carries
    <3>2. CASE mem[s].pin = NoPin
      <4>1. pc'[r] = "persisted?" /\ pin'[r] = NoPin
        BY <1>2, <1>4, <3>2 DEF Lookup, Goto
      <4> QED BY <3>2, <4>1 DEF Carries
    <3> QED BY <3>1, <3>2
  <2> QED BY <1>1, <1>2, <2>1, <2>2, <2>3, <2>4, KeepFrame DEF KeptOf
<1>5. ASSUME NEW r \in Req, ReadPersisted(r) PROVE KeepInv'
  <2>1. pc[r] = "persisted?" /\ UNCHANGED <<mem, store, disk, used, frail, sess>>
    BY <1>5 DEF ReadPersisted, fileVars
  <2>2. CASE store[sess[r]] # NoPin
    <3> DEFINE p == store[sess[r]]
               q == Decided(p.edit, p.decision, 0)
    <3>1. pc' = [pc EXCEPT ![r] = "pin"] /\ pin' = [pin EXCEPT ![r] = q]
      BY <1>5, <2>2 DEF ReadPersisted, Goto
    <3>2. dec(q) = dec(p) /\ q.generated = 0
      BY DEF dec, Decided
    <3>3. Carries("pin", q, mem[sess[r]].pin, store[sess[r]], used[sess[r]], frail[sess[r]])
      <4> HIDE DEF q
      <4> QED BY <1>3, <2>1, <2>2, <3>2, KeepMoves DEF KeptOf, CarriesOf
    <3> HIDE DEF q
    <3> QED BY <1>1, <1>3, <2>1, <3>1, <3>3, KeepQuiet
  <2>3. CASE store[sess[r]] = NoPin
    <3>1. pc' = [pc EXCEPT ![r] = "read file"] /\ pin' = pin
      BY <1>5, <2>3 DEF ReadPersisted, Goto
    <3>2. Carries("read file", pin[r], mem[sess[r]].pin, store[sess[r]], used[sess[r]], frail[sess[r]])
      BY <1>3, <2>1, <2>3, KeepMoves DEF KeptOf, CarriesOf
    <3> QED BY <1>1, <1>3, <2>1, <3>1, <3>2, KeepQuiet
  <2> QED BY <2>2, <2>3
<1>6. ASSUME NEW r \in Req, ReadFile(r) PROVE KeepInv'
  <2>1. /\ pc[r] = "read file" /\ UNCHANGED <<mem, store, disk, used, frail, sess, pin>>
        /\ pc' = [pc EXCEPT ![r] = "decide"]
    BY <1>6 DEF ReadFile, fileVars, Goto
  <2>2. Carries("decide", pin[r], mem[sess[r]].pin, store[sess[r]], used[sess[r]], frail[sess[r]])
    BY <1>3, <2>1, KeepMoves DEF KeptOf, CarriesOf
  <2> QED BY <1>1, <1>3, <2>1, <2>2, KeepQuiet
<1>7. ASSUME NEW r \in Req, NEW a \in BOOLEAN, Decide(r, a) PROVE KeepInv'
  <2>1. /\ pc[r] = "decide" /\ UNCHANGED <<mem, store, disk, used, frail, sess>>
        /\ pc' = [pc EXCEPT ![r] = "persist"]
    BY <1>7 DEF Decide, fileVars, Goto
  <2>2. PICK d : d.decision # "undecided" /\ pin' = [pin EXCEPT ![r] = d]
    <3>1. sess[r] \in Session /\ seen[r] \in 0..MaxClock
      BY <1>1, <2>1 DEF DateInv, RequestsDated
    <3>2. trialPolicy(sess[r], seen[r], a).decision # "undecided"
      BY <3>1, TrialPolicyFacts
    <3>3. Decided(FlagEdit, IF a THEN "applied" ELSE "inadmissible", 0).decision # "undecided"
      BY DEF Decided
    <3> QED BY <1>7, <3>2, <3>3 DEF Decide
  <2>3. Carries("persist", d, mem[sess[r]].pin, store[sess[r]], used[sess[r]], frail[sess[r]])
    BY <1>3, <2>1, <2>2, KeepMoves DEF KeptOf, CarriesOf
  <2> QED BY <1>1, <1>3, <2>1, <2>2, <2>3, KeepQuiet
<1>8. ASSUME NEW r \in Req, SetPin(r) PROVE KeepInv'
  <2> DEFINE s == sess[r]
  <2>1. /\ pc[r] = "persist" /\ UNCHANGED <<mem, used, sess, pin>>
        /\ pc' = [pc EXCEPT ![r] = "pin"] /\ store' = [store EXCEPT ![s] = pin[r]]
    BY <1>8 DEF SetPin, Goto
  <2>2. \/ disk' = [disk EXCEPT ![s] = pin[r]] /\ frail' = frail
        \/ disk' = disk /\ frail' = [frail EXCEPT ![s] = IF @ = "lost" THEN @ ELSE "memory"]
    BY <1>8 DEF SetPin, Missed
  <2>3. /\ s \in Session /\ Kept(mem[s].pin, store[s], disk[s], used[s], frail[s])
        /\ Carries("persist", pin[r], mem[s].pin, store[s], used[s], frail[s])
        /\ \A q \in Req : q # r /\ pc[q] # "idle" => sess[q] # s
    BY <1>3, <2>1 DEF KeptOf, CarriesOf
  <2>4. /\ Kept(mem'[s].pin, store'[s], disk'[s], used'[s], frail'[s])
        /\ Carries("pin", pin'[r], mem'[s].pin, store'[s], used'[s], frail'[s])
    <3>1. store'[s] = pin[r] /\ mem'[s] = mem[s] /\ used'[s] = used[s] /\ pin'[r] = pin[r]
      BY <1>2, <2>1, <2>3
    <3>2. CASE disk' = [disk EXCEPT ![s] = pin[r]] /\ frail' = frail
      <4>1. disk'[s] = pin[r] /\ frail'[s] = frail[s]
        BY <1>2, <2>3, <3>2
      <4> HIDE DEF s
      <4> QED BY <2>3, <3>1, <4>1, PinMoves
    <3>3. CASE disk' = disk /\ frail' = [frail EXCEPT ![s] = IF @ = "lost" THEN @ ELSE "memory"]
      <4>1. /\ disk'[s] = disk[s] /\ frail'[s] \in {"memory", "lost"}
            /\ frail[s] = "lost" => frail'[s] = "lost"
        BY <1>2, <2>3, <3>3
      <4> HIDE DEF s
      <4> QED BY <2>3, <3>1, <4>1, PinMoves
    <3> QED BY <2>2, <3>2, <3>3
  <2>5. \A t \in Session : t # s =>
           /\ mem'[t].pin = mem[t].pin /\ store'[t] = store[t] /\ disk'[t] = disk[t]
           /\ used'[t] = used[t] /\ frail'[t] = frail[t]
    BY <1>2, <2>1, <2>2
  <2>6. pc'[r] = "pin" /\ \A q \in Req : q # r => pc'[q] = pc[q] /\ sess'[q] = sess[q] /\ pin'[q] = pin[q]
    BY <1>2, <2>1
  <2>7. used' = [t \in Session |-> used'[t]] /\ sess'[r] = s
    BY <1>2, <2>1
  <2> HIDE DEF s
  <2> QED BY <1>1, <2>3, <2>4, <2>5, <2>6, <2>7, KeepFrame
<1>9. ASSUME NEW r \in Req, SetPinFails(r) PROVE KeepInv'
  <2> DEFINE s == sess[r]
  <2>1. /\ pc[r] = "persist" /\ UNCHANGED <<mem, store, disk, used, sess, pin>>
        /\ pc' = [pc EXCEPT ![r] = "pin"]
        /\ frail' = [frail EXCEPT ![s] = IF @ = "lost" THEN @ ELSE "memory"]
    BY <1>9 DEF SetPinFails, Goto, Missed
  <2>2. /\ s \in Session /\ Kept(mem[s].pin, store[s], disk[s], used[s], frail[s])
        /\ Carries("persist", pin[r], mem[s].pin, store[s], used[s], frail[s])
        /\ \A q \in Req : q # r /\ pc[q] # "idle" => sess[q] # s
    BY <1>3, <2>1 DEF KeptOf, CarriesOf
  <2>3. frail'[s] \in {"memory", "lost"} /\ (frail[s] = "lost" => frail'[s] = "lost")
    BY <1>2, <2>1, <2>2
  <2>4. /\ Kept(mem[s].pin, store[s], disk[s], used[s], frail'[s])
        /\ Carries("pin", pin[r], mem[s].pin, store[s], used[s], frail'[s])
    <3> HIDE DEF s
    <3> QED BY <2>2, <2>3, PinMoves
  <2>5. \A t \in Session : t # s => frail'[t] = frail[t]
    BY <1>2, <2>1
  <2>6. pc'[r] = "pin" /\ \A q \in Req : q # r => pc'[q] = pc[q]
    BY <1>2, <2>1
  <2>7. used' = [t \in Session |-> used'[t]] /\ sess'[r] = s
    BY <1>2, <2>1
  <2> HIDE DEF s
  <2> QED BY <1>1, <2>1, <2>2, <2>4, <2>5, <2>6, <2>7, KeepFrame
<1>10. ASSUME NEW r \in Req, PinInMemory(r) PROVE KeepInv'
  <2> DEFINE s == sess[r]
             n == IF mem[s].pin = NoPin THEN pin[r] ELSE mem[s].pin
  <2>1. /\ pc[r] = "pin" /\ UNCHANGED <<store, disk, frail, used, sess, pin>>
        /\ pc' = [pc EXCEPT ![r] = "send"]
        /\ mem' = IF mem[s].pin = NoPin THEN [mem EXCEPT ![s].pin = pin[r]] ELSE mem
    BY <1>10 DEF PinInMemory, Goto, fileVars
  <2>2. /\ s \in Session /\ Kept(mem[s].pin, store[s], disk[s], used[s], frail[s])
        /\ Carries("pin", pin[r], mem[s].pin, store[s], used[s], frail[s])
        /\ \A q \in Req : q # r /\ pc[q] # "idle" => sess[q] # s
    BY <1>3, <2>1 DEF KeptOf, CarriesOf
  <2>3. mem'[s].pin = n /\ \A t \in Session : t # s => mem'[t].pin = mem[t].pin
    <3>1. mem[s] \in MemType /\ pin[r] \in PinType
      BY <1>2, <2>2
    <3>2. [mem[s] EXCEPT !.pin = pin[r]].pin = pin[r]
      BY <3>1, MemFacts
    <3> QED BY <1>2, <2>1, <2>2, <3>2
  <2>4. /\ Kept(n, store[s], disk[s], used[s], frail[s])
        /\ Carries("send", pin[r], n, store[s], used[s], frail[s])
    <3> HIDE DEF s
    <3> QED BY <2>2, PinMoves
  <2>6. pc'[r] = "send" /\ \A q \in Req : q # r => pc'[q] = pc[q]
    BY <1>2, <2>1
  <2>7. used' = [t \in Session |-> used'[t]] /\ sess'[r] = s
    BY <1>2, <2>1
  <2> HIDE DEF s, n
  <2> QED BY <1>1, <2>1, <2>2, <2>3, <2>4, <2>6, <2>7, KeepFrame
<1>11. ASSUME NEW r \in Req, Send(r) PROVE KeepInv'
  <2> DEFINE s == sess[r]
             v == used[s] \cup {dec(pin[r])}
  <2>1. /\ pc[r] = "send" /\ UNCHANGED <<mem, store, disk, frail, sess, pin>>
        /\ pc' = [pc EXCEPT ![r] = "answered"] /\ used' = [used EXCEPT ![s] = v]
    BY <1>11 DEF Send, Goto, fileVars, dec
  <2>2. /\ s \in Session /\ Kept(mem[s].pin, store[s], disk[s], used[s], frail[s])
        /\ Carries("send", pin[r], mem[s].pin, store[s], used[s], frail[s])
        /\ \A q \in Req : q # r /\ pc[q] # "idle" => sess[q] # s
    BY <1>3, <2>1 DEF KeptOf, CarriesOf
  <2>3. /\ Kept(mem[s].pin, store[s], disk[s], v, frail[s])
        /\ Carries("answered", pin[r], mem[s].pin, store[s], v, frail[s])
    <3> HIDE DEF s
    <3> QED BY <2>2, KeepMoves
  <2>4. /\ used'[s] = v /\ \A t \in Session : t # s => used'[t] = used[t]
        /\ used' = [t \in Session |-> used'[t]] /\ sess'[r] = s
    BY <1>2, <2>1, <2>2
  <2>6. pc'[r] = "answered" /\ \A q \in Req : q # r => pc'[q] = pc[q]
    BY <1>2, <2>1
  <2>7. /\ Kept(mem'[s].pin, store'[s], disk'[s], used'[s], frail'[s])
        /\ Carries(pc'[r], pin'[r], mem'[s].pin, store'[s], used'[s], frail'[s])
    <3> HIDE DEF s, v
    <3> QED BY <2>1, <2>3, <2>4, <2>6
  <2>8. /\ UNCHANGED <<mem, store, disk, frail, sess, pin>>
        /\ \A t \in Session : t # s => used'[t] = used[t]
        /\ used' = [t \in Session |-> used'[t]]
    BY <2>1, <2>4
  <2> HIDE DEF s, v
  <2> QED BY <1>1, <2>2, <2>4, <2>6, <2>7, <2>8, KeepFrame
<1>12. ASSUME NEW r \in Req, Finish(r) PROVE KeepInv'
  <2>1. /\ pc[r] = "answered" /\ UNCHANGED <<mem, store, disk, frail, used>>
        /\ pc' = [pc EXCEPT ![r] = "idle"] /\ sess' = [sess EXCEPT ![r] = NoSession]
        /\ pin' = [pin EXCEPT ![r] = NoPin]
    BY <1>12 DEF Finish, Return, Goto, fileVars
  <2> QED BY <1>1, <2>1, KeepQuiet
<1>13. ASSUME NEW r \in Req, Judge(r) PROVE KeepInv'
  <2>1. /\ pc[r] = "answered" /\ UNCHANGED <<mem, store, disk, frail, used, sess>>
        /\ pc' = [pc EXCEPT ![r] = "breach"] /\ pin' = [pin EXCEPT ![r] = mem[sess[r]].pin]
        /\ mem[sess[r]].pin # NoPin
    BY <1>13, PinFacts DEF Judge, Goto, fileVars, trialSession
  <2>2. Carries("breach", mem[sess[r]].pin, mem[sess[r]].pin, store[sess[r]], used[sess[r]], frail[sess[r]])
    BY <1>3, <2>1, KeepMoves DEF KeptOf, CarriesOf
  <2> QED BY <1>1, <1>3, <2>1, <2>2, KeepQuiet
<1>14. ASSUME NEW r \in Req, NEW w \in BOOLEAN, noteBreach(r, w) PROVE KeepInv'
  <2>1. /\ pc[r] = "breach" /\ UNCHANGED <<store, disk, frail, used>>
        /\ pc' = [pc EXCEPT ![r] = "idle"] /\ sess' = [sess EXCEPT ![r] = NoSession]
        /\ pin' = [pin EXCEPT ![r] = NoPin]
    BY <1>14 DEF noteBreach, Return, Goto
  <2>2. mem' = mem \/ mem' = [mem EXCEPT ![sess[r]] = [mem[sess[r]] EXCEPT !.breached = TRUE]]
    BY <1>14 DEF noteBreach
  <2>3. \A t \in Session : mem'[t].pin = mem[t].pin
    <3>1. sess[r] \in Session /\ mem[sess[r]] \in MemType
      BY <1>2, <1>3, <2>1
    <3>2. [mem[sess[r]] EXCEPT !.breached = TRUE].pin = mem[sess[r]].pin
      BY <3>1, MemFacts
    <3> QED BY <1>2, <2>2, <3>1, <3>2
  <2> QED BY <1>1, <2>1, <2>3, KeepQuiet
<1>15. ASSUME NEW s \in Session, Evict(s) PROVE KeepInv'
  <2>1. /\ mem' = [mem EXCEPT ![s] = Forgotten]
        /\ UNCHANGED <<store, disk, used, pc, sess, pin>>
        /\ frail' = IF frail[s] # "no" /\ store[s] = NoPin
                    THEN [frail EXCEPT ![s] = "lost"] ELSE frail
    BY <1>15 DEF Evict
  <2>2. /\ mem'[s].pin = NoPin /\ \A t \in Session : t # s => mem'[t] = mem[t] /\ frail'[t] = frail[t]
        /\ frail'[s] = IF frail[s] # "no" /\ store[s] = NoPin THEN "lost" ELSE frail[s]
    BY <1>2, <2>1, MemFacts
  <2>3. ASSUME NEW t \in Session PROVE KeptOf(t)'
    <3>1. KeptOf(t)
      BY DEF KeepInv
    <3>2. CASE t = s
      BY <2>1, <2>2, <3>1, <3>2, ForgetMoves DEF KeptOf
    <3>3. CASE t # s
      BY <2>1, <2>2, <3>1, <3>3 DEF KeptOf
    <3> QED BY <3>2, <3>3
  <2>4. ASSUME NEW r \in Req, pc'[r] # "idle" PROVE CarriesOf(r)'
    <3>1. sess[r] \in Session /\ CarriesOf(r) /\ KeptOf(sess[r])
      BY <1>3, <2>1, <2>4
    <3>2. CASE sess[r] = s
      BY <2>1, <2>2, <3>1, <3>2, ForgetMoves DEF CarriesOf, KeptOf
    <3>3. CASE sess[r] # s
      BY <2>1, <2>2, <3>1, <3>3 DEF CarriesOf
    <3> QED BY <3>2, <3>3
  <2> QED BY <1>1, <2>1, <2>3, <2>4 DEF KeepInv, Solo
<1>16. CASE Restart
  <2>1. /\ mem' = [s \in Session |-> Forgotten] /\ store' = disk /\ UNCHANGED <<disk, used>>
        /\ \A r \in Req : pc'[r] = "idle"
        /\ frail' = [s \in Session |-> IF frail[s] = "no" THEN "no" ELSE "lost"]
    BY <1>16 DEF Restart
  <2>2. ASSUME NEW t \in Session PROVE KeptOf(t)'
    <3>1. KeptOf(t) /\ mem'[t].pin = NoPin
      BY <2>1, MemFacts DEF KeepInv
    <3> QED BY <2>1, <3>1, ForgetMoves DEF KeptOf
  <2> QED BY <1>1, <2>1, <2>2 DEF KeepInv, Solo
<1>17. CASE Learn \/ UNCHANGED vars
  <2>1. UNCHANGED <<mem, store, disk, used, frail, pc, sess, pin>>
    BY <1>17 DEF Learn, vars, fileVars
  <2> QED BY <1>1, <2>1 DEF KeepInv, KeptOf, CarriesOf, Solo
<1> QED BY <1>4, <1>5, <1>6, <1>7, <1>8, <1>9, <1>10, <1>11, <1>12, <1>13, <1>14, <1>15, <1>16, <1>17 DEF Next

\* Where the requests of a session follow one another, all of them are sent
\* under one decision: whatever is rewritten, reverted, evicted, cut short or
\* restarted, unless a pin that missed its file was then forgotten (PX-8).
THEOREM DecidedOnce ==
  ASSUME Overlap = FALSE
  PROVE  Spec => []OneDecision
<1>1. KeepInv => OneDecision
  <2> SUFFICES ASSUME KeepInv PROVE OneDecision
    OBVIOUS
  <2>1. ASSUME NEW s \in Session, frail[s] # "lost" PROVE Cardinality(used[s]) <= 1
    <3>1. PICK d : used[s] \subseteq {d}
      BY <2>1 DEF KeepInv, KeptOf, Kept
    <3>2. used[s] = {} \/ used[s] = {d}
      BY <3>1
    <3>3. CASE used[s] = {}
      BY <3>3, FS_EmptySet
    <3>4. CASE used[s] = {d}
      BY <3>4, FS_Singleton
    <3> QED BY <3>2, <3>3, <3>4
  <2> QED BY <2>1, DateTypes DEF KeepInv, OneDecision
<1> QED BY <1>1, InitKeep, KeepStep, PTL DEF Spec

-----------------------------------------------------------------------------
(* A revert is the work of enough distinct sessions. *)

\* A session that was counted is not counted again: it has sent a request, and
\* either is marked or is pinned without a generation.
Spent(m, u) == u # {} /\ (m.breached = TRUE \/ m.pin.generated = 0)

Tallied ==
    /\ \A g \in Gen : IsFiniteSet(counted[g])
    /\ \A g \in Gen : \A s \in counted[g] : frail[s] # "lost" => Spent(mem[s], used[s])
    /\ NoneLost => \A g \in Gen : breaches[g] <= Cardinality(counted[g])
    /\ RevertEarned

TallyInv == KeepInv /\ Tallied

LEMMA InitTally == Init => TallyInv
<1> SUFFICES ASSUME Init PROVE TallyInv
  OBVIOUS
<1>1. \A g \in Gen : counted[g] = {} /\ breaches[g] = 0
  BY DEF Init
<1>2. RevertEarned
  BY DEF Init, RevertEarned
<1> QED BY <1>1, <1>2, InitKeep, FS_EmptySet DEF TallyInv, Tallied

\* A step that counts no session, and does not make a spent one fresh again.
LEMMA TallyFrame ==
  ASSUME TallyInv, UNCHANGED <<counted, revert>>,
         \A g \in Gen : breaches'[g] = breaches[g] \/ breaches'[g] = 0,
         \A s \in Session : frail[s] = "lost" => frail'[s] = "lost",
         \A s \in Session : frail'[s] # "lost" /\ Spent(mem[s], used[s]) => Spent(mem'[s], used'[s])
  PROVE  Tallied'
<1>1. NoneLost' => NoneLost
  BY DEF NoneLost
<1>2. \A g \in Gen : IsFiniteSet(counted'[g])
  BY DEF TallyInv, Tallied
<1>3. ASSUME NEW g \in Gen, NEW s \in counted'[g], frail'[s] # "lost" PROVE Spent(mem'[s], used'[s])
  <2>1. s \in counted[g] /\ s \in Session
    BY <1>3 DEF TallyInv, KeepInv, DateInv, CountsTyped
  <2> QED BY <1>3, <2>1 DEF TallyInv, Tallied
<1>4. NoneLost' => \A g \in Gen : breaches'[g] <= Cardinality(counted'[g])
  <2>1. \A g \in Gen : Cardinality(counted[g]) \in Nat
    BY FS_CardinalityType DEF TallyInv, Tallied
  <2> QED BY <1>1, <2>1 DEF TallyInv, Tallied
<1>5. RevertEarned'
  BY <1>1 DEF TallyInv, Tallied, RevertEarned
<1> QED BY <1>2, <1>3, <1>4, <1>5 DEF Tallied

\* noteBreach counts a session that was not counted before, unless the pin of
\* some session was lost.
LEMMA TallyBreach ==
  ASSUME Overlap = FALSE, TallyInv, NEW r \in Req, NEW w \in BOOLEAN, noteBreach(r, w)
  PROVE  Tallied'
<1> DEFINE s == sess[r]
           g == pin[r].edit
           n == breaches[g] + 1
           counts == mem[s].pin # NoPin /\ ~mem[s].breached
<1>1. /\ pc[r] = "breach" /\ s \in Session /\ pin[r] \in PinType
      /\ pin[r].generated = g /\ g # 0
  BY DEF noteBreach, TallyInv, KeepInv, DateInv, RequestsDated, PinDated
<1>2. g \in Gen
  BY <1>1, PinFacts
<1>3. CASE ~ counts
  <2>1. UNCHANGED <<mem, trialVars, frail, used>>
    BY <1>3 DEF noteBreach
  <2> QED BY <2>1, TallyFrame DEF trialVars
<1>4. CASE counts
  <2>1. /\ mem' = [mem EXCEPT ![s] = [mem[s] EXCEPT !.breached = TRUE]]
        /\ breaches' = [breaches EXCEPT ![g] = n]
        /\ counted' = [counted EXCEPT ![g] = counted[g] \cup {s}]
        /\ frail' = frail /\ used' = used
        /\ \/ n >= RevertAfter /\ revert' = [at |-> clock, generated |-> pin[r].generated]
           \/ revert' = revert
    BY <1>4 DEF noteBreach
  <2>2. /\ mem \in [Session -> MemType] /\ breaches \in [Gen -> Nat]
        /\ counted \in [Gen -> SUBSET Session]
    BY DEF TallyInv, KeepInv, DateInv, PinsDated, CountsTyped
  <2>3. /\ counted'[g] = counted[g] \cup {s} /\ breaches'[g] = n
        /\ \A h \in Gen : h # g => counted'[h] = counted[h] /\ breaches'[h] = breaches[h]
    BY <1>2, <2>1, <2>2
  <2>4. /\ mem'[s].breached = TRUE /\ \A t \in Session : t # s => mem'[t] = mem[t]
    <3>1. mem[s] \in MemType
      BY <1>1, <2>2
    <3>2. [mem[s] EXCEPT !.breached = TRUE].breached = TRUE
      BY <3>1, MemFacts
    <3> QED BY <1>1, <2>1, <2>2, <3>2
  <2>5. /\ frail[s] # "lost" => mem[s].pin = pin[r] /\ used[s] # {}
    BY <1>1, <1>4 DEF TallyInv, KeepInv, CarriesOf, Carries
  <2>6. frail[s] # "lost" => s \notin counted[g]
    BY <1>1, <1>2, <1>4, <2>5 DEF TallyInv, Tallied, Spent
  <2>7. \A h \in Gen : IsFiniteSet(counted[h]) /\ Cardinality(counted[h]) \in Nat
    BY FS_CardinalityType DEF TallyInv, Tallied
  <2>8. /\ IsFiniteSet(counted'[g]) /\ Cardinality(counted'[g]) \in Nat
        /\ Cardinality(counted'[g]) >= Cardinality(counted[g])
        /\ frail[s] # "lost" => Cardinality(counted'[g]) = Cardinality(counted[g]) + 1
    <3>1. IsFiniteSet(counted[g]) /\ Cardinality(counted[g]) \in Nat
      BY <1>2, <2>7
    <3> DEFINE C == counted[g]
    <3>2. /\ IsFiniteSet(C \cup {s})
          /\ Cardinality(C \cup {s}) = IF s \in C THEN Cardinality(C) ELSE Cardinality(C) + 1
      <4> HIDE DEF C, s
      <4> QED BY <3>1, FS_AddElement DEF C
    <3>3. counted'[g] = C \cup {s}
      BY <2>3
    <3> QED BY <2>6, <3>1, <3>2, <3>3
  <2>9. \A h \in Gen : IsFiniteSet(counted'[h])
    BY <2>3, <2>7, <2>8
  <2>10. ASSUME NEW h \in Gen, NEW t \in counted'[h], frail'[t] # "lost" PROVE Spent(mem'[t], used'[t])
    <3>1. CASE t = s
      BY <2>1, <2>4, <2>5, <2>10, <3>1 DEF Spent
    <3>2. CASE t # s
      <4>1. t \in counted[h] /\ t \in Session
        BY <2>2, <2>3, <2>10, <3>2
      <4>2. Spent(mem[t], used[t])
        BY <2>1, <2>10, <4>1 DEF TallyInv, Tallied
      <4> QED BY <2>1, <2>4, <3>2, <4>1, <4>2
    <3> QED BY <3>1, <3>2
  <2>11. NoneLost' => \A h \in Gen : breaches'[h] <= Cardinality(counted'[h])
    <3> SUFFICES ASSUME NoneLost', NEW h \in Gen PROVE breaches'[h] <= Cardinality(counted'[h])
      OBVIOUS
    <3>1. frail[s] # "lost" /\ breaches[h] <= Cardinality(counted[h]) /\ breaches[h] \in Nat
      BY <1>1, <2>1, <2>2 DEF NoneLost, TallyInv, Tallied
    <3>2. CASE h = g
      <4>1. breaches'[h] = breaches[h] + 1 /\ Cardinality(counted[h]) \in Nat
        BY <1>2, <2>3, <2>7, <3>2
      <4>2. Cardinality(counted'[h]) = Cardinality(counted[h]) + 1
        BY <2>8, <3>1, <3>2
      <4> QED BY <3>1, <4>1, <4>2
    <3>3. CASE h # g
      BY <2>3, <3>1, <3>3
    <3> QED BY <3>2, <3>3
  <2>12. RevertEarned'
    <3> SUFFICES ASSUME NoneLost', revert' # NoRevert
                 PROVE  Cardinality(counted'[revert'.generated]) >= RevertAfter
      BY DEF RevertEarned
    <3>1. CASE n >= RevertAfter /\ revert' = [at |-> clock, generated |-> pin[r].generated]
      <4>1. revert'.generated = g
        BY <1>1, <3>1
      <4>2. n <= Cardinality(counted'[g])
        BY <1>2, <2>3, <2>11
      <4>3. n \in Nat
        BY <1>2, <2>2
      <4> HIDE DEF n, g
      <4> QED BY <2>8, <3>1, <4>1, <4>2, <4>3, PinAssumption
    <3>2. CASE revert' = revert
      <4>1. NoneLost /\ revert.generated \in Gen
        BY <2>1, <3>2 DEF NoneLost, TallyInv, KeepInv, DateInv, RevertDated
      <4>2. Cardinality(counted[revert.generated]) >= RevertAfter
        BY <3>2, <4>1 DEF TallyInv, Tallied, RevertEarned
      <4>3. CASE revert.generated = g
        BY <2>7, <2>8, <3>2, <4>1, <4>2, <4>3, PinAssumption
      <4>4. CASE revert.generated # g
        BY <2>3, <3>2, <4>1, <4>2, <4>4
      <4> QED BY <4>3, <4>4
    <3> QED BY <2>1, <3>1, <3>2
  <2> QED BY <2>9, <2>10, <2>11, <2>12 DEF Tallied
<1> QED BY <1>3, <1>4

LEMMA TallyStep ==
  ASSUME Overlap = FALSE, TallyInv, [Next]_vars
  PROVE  TallyInv'
<1>1. KeepInv /\ KeepInv'
  BY KeepStep DEF TallyInv
<1>2. /\ mem \in [Session -> MemType] /\ pin \in [Req -> PinType]
      /\ used = [s \in Session |-> used[s]] /\ frail \in [Session -> {"no", "memory", "lost"}]
  BY <1>1 DEF KeepInv, DateInv, PinsDated, RequestsDated, FrailTyped
<1>3. ASSUME UNCHANGED <<counted, revert, breaches, mem, used, frail>> PROVE Tallied'
  BY <1>3, TallyFrame
<1>4. ASSUME NEW r \in Req, NEW s \in Session, Lookup(r, s) PROVE Tallied'
  BY <1>3, <1>4 DEF Lookup, fileVars, trialVars
<1>5. ASSUME NEW r \in Req, ReadPersisted(r) \/ ReadFile(r) \/ Finish(r) \/ Judge(r) PROVE Tallied'
  BY <1>3, <1>5 DEF ReadPersisted, ReadFile, Finish, Judge, fileVars, trialVars
<1>6. ASSUME NEW r \in Req, NEW a \in BOOLEAN, Decide(r, a) PROVE Tallied'
  BY <1>3, <1>6 DEF Decide, fileVars, trialVars
<1>7. ASSUME NEW r \in Req, SetPin(r) \/ SetPinFails(r) PROVE Tallied'
  <2>1. UNCHANGED <<counted, revert, breaches, mem, used>>
    BY <1>7 DEF SetPin, SetPinFails, trialVars
  <2>2. frail' = frail \/ frail' = [frail EXCEPT ![sess[r]] = IF @ = "lost" THEN @ ELSE "memory"]
    BY <1>7 DEF SetPin, SetPinFails, Missed
  <2>3. \A s \in Session : frail[s] = "lost" => frail'[s] = "lost"
    BY <1>2, <2>2
  <2> QED BY <2>1, <2>3, TallyFrame
<1>8. ASSUME NEW r \in Req, PinInMemory(r) PROVE Tallied'
  <2>1. /\ pc[r] = "pin" /\ UNCHANGED <<counted, revert, breaches, frail, used>>
        /\ \/ mem' = mem
           \/ mem' = [mem EXCEPT ![sess[r]] = [mem[sess[r]] EXCEPT !.pin = pin[r]]]
    BY <1>8 DEF PinInMemory, fileVars, trialVars
  <2>2. CASE mem' = mem
    BY <1>3, <2>1, <2>2
  <2>3. CASE mem' = [mem EXCEPT ![sess[r]] = [mem[sess[r]] EXCEPT !.pin = pin[r]]]
    <3> DEFINE t == sess[r]
    <3>1. t \in Session /\ mem[t] \in MemType /\ pin[r] \in PinType
      BY <1>1, <1>2, <2>1 DEF KeepInv, DateInv, RequestsDated
    <3>2. mem'[t].breached = mem[t].breached /\ mem'[t].pin = pin[r]
      BY <1>2, <2>3, <3>1, MemFacts
    <3>3. frail[t] # "lost" => pin[r].generated = 0 \/ used[t] = {}
      BY <1>1, <2>1 DEF KeepInv, CarriesOf, Carries
    <3>4. \A s \in Session : s # t => mem'[s] = mem[s]
      BY <1>2, <2>3
    <3>5. ASSUME NEW s \in Session, frail'[s] # "lost", Spent(mem[s], used[s])
          PROVE  Spent(mem'[s], used'[s])
      <4> HIDE DEF t
      <4> QED BY <2>1, <3>2, <3>3, <3>4, <3>5 DEF Spent
    <3> QED BY <2>1, <3>5, TallyFrame
  <2> QED BY <2>1, <2>2, <2>3
<1>9. ASSUME NEW r \in Req, Send(r) PROVE Tallied'
  <2>1. UNCHANGED <<counted, revert, breaches, frail, mem>>
    BY <1>9 DEF Send, fileVars, trialVars
  <2>2. \A s \in Session : used[s] \subseteq used'[s]
    BY <1>2, <1>9 DEF Send
  <2> QED BY <2>1, <2>2, TallyFrame DEF Spent
<1>10. ASSUME NEW r \in Req, NEW w \in BOOLEAN, noteBreach(r, w) PROVE Tallied'
  BY <1>10, TallyBreach
<1>11. ASSUME NEW s \in Session, Evict(s) PROVE Tallied'
  <2>1. /\ UNCHANGED <<counted, revert, breaches, used>> /\ mem' = [mem EXCEPT ![s] = Forgotten]
        /\ frail' = frail \/ frail' = [frail EXCEPT ![s] = "lost"]
    BY <1>11 DEF Evict, trialVars
  <2>2. \A t \in Session : frail[t] = "lost" => frail'[t] = "lost"
    BY <1>2, <2>1
  <2>3. \A t \in Session : Spent(mem[t], used[t]) => Spent(mem'[t], used'[t])
    BY <1>2, <2>1, MemFacts, PinFacts DEF Spent
  <2> QED BY <2>1, <2>2, <2>3, TallyFrame
<1>12. CASE Restart
  <2>1. /\ UNCHANGED <<counted, revert, used>> /\ mem' = [s \in Session |-> Forgotten]
        /\ frail' = [s \in Session |-> IF frail[s] = "no" THEN "no" ELSE "lost"]
        /\ breaches' = [g \in Gen |-> 0]
    BY <1>12 DEF Restart
  <2>2. \A t \in Session : frail[t] = "lost" => frail'[t] = "lost"
    BY <2>1
  <2>3. \A t \in Session : Spent(mem[t], used[t]) => Spent(mem'[t], used'[t])
    BY <2>1, MemFacts, PinFacts DEF Spent
  <2>4. \A g \in Gen : breaches'[g] = breaches[g] \/ breaches'[g] = 0
    BY <2>1
  <2>5. UNCHANGED <<counted, revert>>
    BY <2>1
  <2> QED BY <1>1, <2>2, <2>3, <2>4, <2>5, TallyFrame DEF TallyInv
<1>13. CASE Learn \/ UNCHANGED vars
  <2>1. UNCHANGED <<counted, revert, breaches, mem, used, frail>>
    BY <1>13 DEF Learn, vars, fileVars, trialVars
  <2> QED BY <1>1, <1>3, <2>1 DEF TallyInv
<1> QED BY <1>1, <1>4, <1>5, <1>6, <1>7, <1>8, <1>9, <1>10, <1>11, <1>12, <1>13 DEF Next, TallyInv

\* Where the requests of a session follow one another, no policy is reverted on
\* fewer than RevertAfter distinct sessions that ran under it, however often
\* they breach, are evicted or meet a restarted proxy (noteBreach).
THEOREM RevertsAreEarned ==
  ASSUME Overlap = FALSE
  PROVE  Spec => []RevertEarned
<1>1. TallyInv => RevertEarned
  BY DEF TallyInv, Tallied
<1> QED BY <1>1, InitTally, TallyStep, PTL DEF Spec

-----------------------------------------------------------------------------
(* The replay of a lane under another cache lifetime.                      *)

\* A usage as a provider reports it: the writes of one request are of one
\* lifetime.
Reported == {u \in [input : Nat, read : Nat, create5m : Nat, create1h : Nat] :
                u.create5m = 0 \/ u.create1h = 0}

\* What the replay knows of the turn it is at.
ReplayInv ==
    /\ ttl \in Lifetime /\ turns \in 0..MaxTurns
    /\ reproduced \in Nat /\ exceeded \in Nat /\ broken \in Nat
    /\ reproduced + exceeded + broken = (IF turns = 0 THEN 0 ELSE turns - 1)
    /\ prev \in Reported /\ cur \in Reported /\ (ttl = TTLShort => cur.create1h = 0)
    /\ cache = [t \in Lifetime |-> ExpectedRead(cur)]
    /\ sim \in [Lifetime -> [read : Nat, write : Nat]]
    /\ OwnLifetimeIsAsRun /\ LongerKeepsWhatExpired

\* The lane was recorded by the provider: gap, prompt and read are as one of its
\* five moves makes them.
Served(g, c, r, why) ==
    \/ /\ why = "held" /\ (turns > 0 => g <= ttl)
       /\ r = IF turns = 0 THEN 0 ELSE Lesser(Held, c)
    \/ why = "client" /\ turns > 0 /\ g <= ttl /\ r < Lesser(Held, c)
    \/ why = "expired" /\ turns > 0 /\ g > ttl /\ r = 0
    \/ why = "sibling" /\ r > Held /\ r <= c

LEMMA UsageFacts ==
  ASSUME NEW tail \in Nat, NEW w \in Nat, NEW r \in Nat, NEW t \in Lifetime
  PROVE  /\ usage(tail, w, r, t) \in Reported
         /\ usage(tail, w, r, t).read = r /\ usage(tail, w, r, t).input = tail
         /\ created(usage(tail, w, r, t)) = w
         /\ PromptTotal(usage(tail, w, r, t)) = tail + r + w
         /\ ExpectedRead(usage(tail, w, r, t)) = r + w
BY DEF usage, Reported, created, PromptTotal, ExpectedRead

LEMMA ReportedFacts ==
  ASSUME NEW u \in Reported
  PROVE  /\ ExpectedRead(u) \in Nat /\ ExpectedRead(u) = u.read + created(u)
         /\ PromptTotal(u) - u.input = ExpectedRead(u) /\ created(u) \in Nat
BY DEF Reported, ExpectedRead, PromptTotal, created

\* One turn, whatever the provider did.
LEMMA TurnReplayed ==
  ASSUME ReplayInv, NEW g \in Nat, NEW c \in Nat, NEW r \in Nat, NEW tail \in Nat, NEW why,
         r <= c, Record(usage(tail, c - r, r, ttl), g, why),
         \/ c >= MinPrefix /\ Served(g, c, r, why)
         \/ c = 0 /\ c < MinPrefix /\ r = 0 /\ why = "short"
  PROVE  ReplayInv'
<1> DEFINE u == usage(tail, c - r, r, ttl)
           o == IF turns = 0 THEN "first" ELSE ClassifyRead(cur, u)
           obs == IF turns = 0 THEN -1 ELSE observedAvailability(o, cur, u, g)
           hold == ExpectedRead(cur)
<1>1. u \in Reported /\ u.read = r /\ created(u) = c - r /\ ExpectedRead(u) = c
      /\ PromptTotal(u) - u.input = c /\ ttl \in Lifetime
  <2>1. ttl \in Lifetime /\ c - r \in Nat
    BY DEF ReplayInv
  <2>2. r + (c - r) = c
    OBVIOUS
  <2>3. /\ u \in Reported /\ u.read = r /\ created(u) = c - r
        /\ ExpectedRead(u) = r + (c - r)
    BY <2>1, UsageFacts
  <2> HIDE DEF u
  <2>4. PromptTotal(u) - u.input = ExpectedRead(u)
    BY <2>3, ReportedFacts
  <2> QED BY <2>1, <2>2, <2>3, <2>4
<1> HIDE DEF u
<1>2. /\ turns < MaxTurns /\ turns' = turns + 1 /\ prev' = cur /\ cur' = u /\ gap' = g /\ how' = why
      /\ outcome' = o /\ ttl' = ttl
      /\ reproduced' = reproduced + (IF o = "reproduced" THEN 1 ELSE 0)
      /\ exceeded' = exceeded + (IF o = "exceeded" THEN 1 ELSE 0)
      /\ broken' = broken + (IF o = "broken" THEN 1 ELSE 0)
      /\ cache' = [t \in Lifetime |-> c]
      /\ sim' = [t \in Lifetime |->
                   LET p == IF turns = 0 THEN r ELSE cache[t]
                       x == served(p, t, IF turns = 0 THEN 0 ELSE g, c, obs)
                   IN  [read |-> x, write |-> c - x]]
  BY <1>1 DEF Record, u
<1>3. hold \in Nat /\ \A t \in Lifetime : cache[t] = hold
  BY ReportedFacts DEF ReplayInv
<1> HIDE DEF hold
<1>4. TTLShort \in Nat /\ TTLLong \in Nat /\ TTLShort < TTLLong /\ MinPrefix \in Nat
      /\ Lifetime = {TTLShort, TTLLong} /\ turns \in Nat
  BY LifetimeAssumption DEF Lifetime, ReplayInv
<1>5. /\ turns = 0 => o = "first" /\ obs = -1
      /\ turns # 0 => o = (IF r = hold THEN "reproduced" ELSE IF r > hold THEN "exceeded" ELSE "broken")
      /\ turns # 0 => obs = IF o = "exceeded" \/ (o = "broken" /\ g <= TTLOf(cur)) THEN r ELSE -1
  BY <1>1 DEF ClassifyRead, observedAvailability, hold
<1> HIDE DEF o, obs
<1>6. PICK X \in [Lifetime -> 0..c] :
         /\ sim' = [t \in Lifetime |-> [read |-> X[t], write |-> c - X[t]]]
         /\ \A t \in Lifetime :
               X[t] = served(IF turns = 0 THEN r ELSE hold, t, IF turns = 0 THEN 0 ELSE g, c, obs)
  <2> DEFINE F == [t \in Lifetime |->
                     served(IF turns = 0 THEN r ELSE hold, t, IF turns = 0 THEN 0 ELSE g, c, obs)]
  <2>1. ASSUME NEW t \in Lifetime PROVE F[t] \in 0..c
    BY <1>3, <1>4, <1>5 DEF served, Lesser
  <2>2. sim' = [t \in Lifetime |-> [read |-> F[t], write |-> c - F[t]]]
    BY <1>2, <1>3
  <2>3. F \in [Lifetime -> 0..c]
    BY <2>1
  <2> QED BY <2>2, <2>3
<1>7. /\ TTLShort \in Lifetime /\ TTLLong \in Lifetime
      /\ \A t \in Lifetime : X[t] \in Nat /\ X[t] <= c
  BY <1>4
<1>8. sim' \in [Lifetime -> [read : Nat, write : Nat]]
  BY <1>6, <1>7
<1>9. \A t \in Lifetime : sim'[t] = [read |-> X[t], write |-> c - X[t]] /\ sim'[t].read = X[t]
  BY <1>6
<1>10. OwnLifetimeIsAsRun'
  <2> SUFFICES ASSUME ~Undecidable' PROVE X[ttl] = r
    <3> QED BY <1>1, <1>2, <1>9 DEF OwnLifetimeIsAsRun
  <2>1. /\ ~(why = "client" /\ g > TTLOf(cur))
        /\ ~(why = "sibling" /\ turns + 1 > 1 /\ (g > ttl \/ hold = 0))
    BY <1>2 DEF Undecidable, hold
  <2>2. CASE turns = 0
    BY <1>1, <1>4, <1>5, <1>6, <1>7, <2>2 DEF served, Lesser, Served
  <2>3. CASE turns # 0
    <3>1. Held = hold /\ ttl \in Nat /\ TTLOf(cur) \in Nat
      BY <1>1, <1>4, <2>3 DEF Held, hold, TTLOf
    <3>2. X[ttl] = IF ~(hold > 0 /\ g <= ttl /\ c >= MinPrefix) THEN 0
                   ELSE IF obs >= 0 THEN Lesser(obs, c) ELSE Lesser(hold, c)
      BY <1>1, <1>6, <2>3 DEF served
    <3>3. \A a, b \in Int : Lesser(a, b) = IF a < b THEN a ELSE b
      BY DEF Lesser
    <3>4. o = (IF r = hold THEN "reproduced" ELSE IF r > hold THEN "exceeded" ELSE "broken")
          /\ obs = IF o = "exceeded" \/ (o = "broken" /\ g <= TTLOf(cur)) THEN r ELSE -1
      BY <1>5, <2>3
    <3>5. /\ hold \in Nat /\ MinPrefix \in Nat /\ turns + 1 > 1
          /\ (o = "exceeded") = (r > hold) /\ (o = "broken") = (r < hold)
      BY <1>3, <1>4, <2>3, <3>4
    <3>6. CASE c = 0 /\ c < MinPrefix /\ r = 0
      BY <3>2, <3>5, <3>6
    <3>7. CASE c >= MinPrefix /\ Served(g, c, r, "held")
      <4>1. g <= ttl /\ r = Lesser(hold, c)
        BY <1>4, <2>3, <3>1, <3>5, <3>7 DEF Served
      <4>2. CASE obs >= 0
        BY <3>1, <3>2, <3>3, <3>4, <3>5, <3>7, <4>1, <4>2
      <4>3. CASE ~(obs >= 0)
        BY <3>1, <3>2, <3>3, <3>5, <3>7, <4>1, <4>3
      <4> QED BY <4>2, <4>3
    <3>8. CASE c >= MinPrefix /\ Served(g, c, r, "client") /\ why = "client"
      <4>1. g <= ttl /\ r < Lesser(hold, c) /\ g <= TTLOf(cur)
        BY <2>1, <3>1, <3>8 DEF Served
      <4> QED BY <3>1, <3>2, <3>3, <3>4, <3>5, <3>8, <4>1
    <3>9. CASE Served(g, c, r, "expired")
      <4>1. g > ttl /\ r = 0
        BY <3>9 DEF Served
      <4> QED BY <3>1, <3>2, <4>1
    <3>10. CASE c >= MinPrefix /\ Served(g, c, r, "sibling") /\ why = "sibling"
      <4>1. g <= ttl /\ hold > 0 /\ r > hold /\ r <= c
        BY <2>1, <3>1, <3>5, <3>10 DEF Served
      <4> QED BY <3>1, <3>2, <3>3, <3>4, <3>5, <3>10, <4>1
    <3> QED BY <3>6, <3>7, <3>8, <3>9, <3>10 DEF Served
  <2> QED BY <2>2, <2>3
<1>11. LongerKeepsWhatExpired'
  <2>1. X[TTLLong] >= X[TTLShort]
    BY <1>3, <1>4, <1>5, <1>6, <1>7 DEF served, Lesser
  <2>2. ASSUME why = "expired", ttl = TTLShort, g <= TTLLong
        PROVE  X[TTLLong] = Lesser(hold, c)
    <3>1. turns # 0 /\ g > ttl /\ r = 0 /\ c >= MinPrefix
      BY <2>2 DEF Served
    <3>2. TTLOf(cur) = TTLShort
      BY <1>4, <2>2 DEF TTLOf, ReplayInv
    <3>3. obs = -1
      BY <1>3, <1>4, <1>5, <2>2, <3>1, <3>2
    <3>4. hold = 0 => Lesser(hold, c) = 0
      BY DEF Lesser
    <3>5. X[TTLLong] = IF ~(hold > 0 /\ g <= TTLLong /\ c >= MinPrefix) THEN 0
                       ELSE IF obs >= 0 THEN Lesser(obs, c) ELSE Lesser(hold, c)
      BY <1>6, <1>7, <3>1 DEF served
    <3> QED BY <1>3, <2>2, <3>1, <3>3, <3>4, <3>5
  <2>3. sim'[TTLLong].read = X[TTLLong] /\ sim'[TTLShort].read = X[TTLShort]
        /\ cache'[TTLLong] = c /\ ExpectedRead(prev)' = hold
    BY <1>2, <1>4, <1>9 DEF hold, ExpectedRead, PromptTotal, created
  <2> QED BY <1>2, <2>1, <2>2, <2>3 DEF LongerKeepsWhatExpired, Lesser
<1>12. /\ reproduced' \in Nat /\ exceeded' \in Nat /\ broken' \in Nat
       /\ reproduced' + exceeded' + broken' = turns'- 1 /\ turns' # 0
  BY <1>2, <1>4, <1>5, <1>6, <1>7 DEF ReplayInv
<1> QED
  <2>1. cache' = [t \in Lifetime |-> ExpectedRead(cur)']
    BY <1>1, <1>2 DEF ExpectedRead, PromptTotal, created
  <2>2. turns' \in 0..MaxTurns /\ ttl' \in Lifetime /\ prev' \in Reported /\ cur' \in Reported
    BY <1>1, <1>2, LifetimeAssumption DEF ReplayInv
  <2>3. ttl' = TTLShort => cur'.create1h = 0
    BY <1>2, <1>4 DEF usage, u
  <2> QED BY <1>8, <1>10, <1>11, <1>12, <2>1, <2>2, <2>3 DEF ReplayInv

LEMMA ReplayStep == ReplayInv /\ [ReplayNext]_replayVars => ReplayInv'
<1> SUFFICES ASSUME ReplayInv, [ReplayNext]_replayVars PROVE ReplayInv'
  OBVIOUS
<1>0. /\ MinPrefix \in Nat /\ MaxPrompt \in Nat /\ MaxGap \in Nat
      /\ ttl \in Lifetime /\ turns \in Nat /\ ExpectedRead(cur) \in Nat /\ Held \in Nat
  BY LifetimeAssumption, ReportedFacts DEF ReplayInv, Held
<1>1. ASSUME NEW g \in 0..MaxGap, NEW p \in 1..MaxPrompt, TooShort(g, p) PROVE ReplayInv'
  <2>1. g \in Nat /\ p \in Nat /\ 0 < MinPrefix /\ 0 - 0 = 0
    BY <1>0, <1>1 DEF TooShort
  <2>2. Record(usage(p, 0, 0, ttl), g, "short")
    BY <1>1 DEF TooShort
  <2> QED BY <2>1, <2>2, TurnReplayed
<1>2. ASSUME NEW g \in 0..MaxGap, NEW c \in MinPrefix..MaxPrompt, NEW tail \in {0, 1},
             \/ ReadsOn(g, c, tail)
             \/ \E r \in 0..c : ClientBreaks(g, c, tail, r)
             \/ Expires(g, c, tail)
             \/ \E r \in 1..c : SiblingExtends(g, c, tail, r)
      PROVE  ReplayInv'
  <2>1. g \in Nat /\ c \in Nat /\ tail \in Nat /\ c >= MinPrefix
    BY <1>0
  <2>2. ASSUME NEW r \in Nat, NEW why, r <= c, Served(g, c, r, why),
               Record(usage(tail, c - r, r, ttl), g, why)
        PROVE  ReplayInv'
    BY <2>1, <2>2, TurnReplayed
  <2>3. CASE ReadsOn(g, c, tail)
    <3> DEFINE r == IF turns = 0 THEN 0 ELSE Lesser(Held, c)
    <3>1. r \in Nat /\ r <= c
      BY <1>0, <2>1 DEF Lesser
    <3>2. Served(g, c, r, "held") /\ Record(usage(tail, c - r, r, ttl), g, "held")
      BY <2>3 DEF ReadsOn, Served
    <3> HIDE DEF r
    <3> QED BY <2>2, <3>1, <3>2
  <2>4. ASSUME NEW r \in 0..c, ClientBreaks(g, c, tail, r) PROVE ReplayInv'
    <3>1. r \in Nat /\ r <= c
      BY <2>1
    <3> QED BY <2>2, <2>4, <3>1 DEF ClientBreaks, Served
  <2>5. CASE Expires(g, c, tail)
    <3>1. Served(g, c, 0, "expired") /\ Record(usage(tail, c - 0, 0, ttl), g, "expired") /\ 0 <= c
      <4>1. c - 0 = c
        BY <2>1
      <4> QED BY <2>1, <2>5, <4>1 DEF Expires, Served
    <3> QED BY <2>2, <3>1
  <2>6. ASSUME NEW r \in 1..c, SiblingExtends(g, c, tail, r) PROVE ReplayInv'
    <3>1. r \in Nat /\ r <= c
      BY <2>1
    <3> QED BY <2>2, <2>6, <3>1 DEF SiblingExtends, Served
  <2> QED BY <1>2, <2>3, <2>4, <2>5, <2>6
<1>3. CASE UNCHANGED replayVars
  BY <1>3 DEF replayVars, ReplayInv, OwnLifetimeIsAsRun, LongerKeepsWhatExpired, Undecidable,
              ExpectedRead, PromptTotal, created, TTLOf
<1> QED BY <1>1, <1>2, <1>3 DEF ReplayNext

\* For any lifetimes, minimum prefix and recorded lane: replayed under the
\* lifetime it ran with, each turn reads and writes what it did, save where the
\* recording cannot say why a read fell short or who kept an entry alive, and
\* under the longer lifetime no turn reads less and an expiry becomes a hit
\* (replay.go, calibrate.go).
THEOREM LifetimesAlwaysReplayed == ReplaySpec => []LifetimesReplayed
<1>1. ReplayInit => ReplayInv
  <2> SUFFICES ASSUME ReplayInit PROVE ReplayInv
    OBVIOUS
  <2>1. NoUsage \in Reported /\ ExpectedRead(NoUsage) = 0 /\ NoUsage.create1h = 0
    BY DEF NoUsage, Reported, ExpectedRead, PromptTotal, created
  <2>2. OwnLifetimeIsAsRun /\ LongerKeepsWhatExpired
    BY LifetimeAssumption DEF ReplayInit, OwnLifetimeIsAsRun, LongerKeepsWhatExpired, Lifetime
  <2> QED BY <2>1, <2>2, LifetimeAssumption DEF ReplayInit, ReplayInv
<1>2. ReplayInv => LifetimesReplayed
  BY DEF ReplayInv, LifetimesReplayed, ReplayTypeOK
<1> QED BY <1>1, <1>2, ReplayStep, PTL DEF ReplaySpec

================================================================================
