---------------------------- MODULE PassageProofs ----------------------------
(***************************************************************************)
(* What the handler promises, for any requests, any way of starting the    *)
(* proxy and any number of days.                                           *)
(*                                                                         *)
(* None of the three properties is inductive: each speaks of calls that    *)
(* are done, or sent.  The invariants say of every stage of a call what it *)
(* holds (HoldsByStep), what its record and its body have in common        *)
(* (RecordByStep), and which calls each figure counts.                     *)
(***************************************************************************)
EXTENDS Passage, FiniteSetTheorems, TLAPS

-----------------------------------------------------------------------------
(* What a call holds.                                                        *)

Sent == {"upstream", "replied", "observed", "priced", "counted", "left"}

\* Where a call is says what it holds.
HoldsByStep ==
    \A c \in Call :
        /\ c \in inLane => step[c] \in {"in lane", "upstream", "replied", "observed", "priced",
                                        "counted"}
        /\ c \in leading => step[c] \in Sent \cup {"returning"}
        /\ c \in probe => step[c] \notin {"new", "noted"}
        /\ c \in observed => step[c] \in {"observed", "priced", "counted", "left", "returning",
                                          "done"}
        /\ c \in observed => wire[c] # NotSent
        /\ c \in returned => step[c] = "done" /\ c \notin observed
        /\ step[c] = "done" /\ c \in probe => c \in observed \cup returned
        /\ wire[c] # NotSent => step[c] \in Sent \cup {"returning", "done"}
        /\ step[c] \in Sent => wire[c] # NotSent

SlotIsHeld == probing => \E c \in probe : step[c] # "done" /\ c \notin observed

HandlerInv == PassageTypeOK /\ HoldsByStep /\ SlotIsHeld

LEMMA AskFacts ==
    ASSUME PassageTypeOK, NEW c \in Call
    PROVE  ask[c] \in AskType
  BY PassageAssumption DEF PassageTypeOK

LEMMA OneMore ==
    ASSUME NEW S, NEW f \in [S -> Nat], NEW k
    PROVE  [f EXCEPT ![k] = @ + 1] \in [S -> Nat]
  <1>1. CASE k \in S
    BY <1>1
  <1>2. CASE k \notin S
    BY <1>2
  <1> QED
    BY <1>1, <1>2

LEMMA DaysFact == MaxToday \in Nat \ {0}
  BY PassageAssumption

\* What the actions do to a record.
LEMMA Attributed ==
    ASSUME NEW r \in RecordType, NEW b \in BOOLEAN
    PROVE  [r EXCEPT !.session = b] \in RecordType
  BY DEF RecordType

LEMMA Refused ==
    ASSUME NEW r \in RecordType, NEW b \in BOOLEAN, NEW k \in Refusals
    PROVE  [r EXCEPT !.refusal = k, !.session = b] \in RecordType
  BY DEF RecordType

LEMMA Closed ==
    ASSUME NEW r \in RecordType, NEW p \in {"none", "context-edit", "openai-include-usage"},
           NEW b \in (SUBSET Rewrites) \cup {NoHash}
    PROVE  [r EXCEPT !.policy = p, !.after = b] \in RecordType
  BY DEF RecordType

LEMMA HandlerInit == PassageInit => HandlerInv
  <1> SUFFICES ASSUME PassageInit PROVE HandlerInv
    OBVIOUS
  <1>1. PICK f \in FlagsType : cfg = Configured(f)
    BY PassageAssumption DEF PassageInit
  <1>2. cfg \in ConfigType
    BY <1>1 DEF Configured, FlagsType, ConfigType
  <1>3. Fresh \in RecordType
    BY DEF Fresh, RecordType, NoHash, Rewrites, Refusals
  <1>4. PassageTypeOK
    <2>1. step \in [Call -> Stages] /\ ask \in [Call -> Asks] /\ rec \in [Call -> RecordType]
      BY <1>3 DEF PassageInit, Stages
    <2>2. /\ payload \in [Call -> SUBSET Rewrites] /\ reply \in [Call -> Replies \cup {NoReply}]
          /\ wire \in [Call -> (SUBSET Rewrites) \cup {NotSent}]
      BY DEF PassageInit
    <2>3. /\ today \in 1..MaxToday /\ dayStamp \in 0..MaxToday
          /\ booked \in [Call -> 0..MaxToday] /\ filed \in [Call -> Nat]
      BY DaysFact DEF PassageInit
    <2>4. /\ noted \in [Paths -> Nat] /\ told \in [Paths -> Nat]
          /\ requests \in [Classes \cup {"refused"} -> Nat] /\ refusedByKind \in [Refusals -> Nat]
      BY DEF PassageInit
    <2> QED
      BY <1>2, <2>1, <2>2, <2>3, <2>4 DEF PassageInit, PassageTypeOK
  <1>5. HoldsByStep /\ SlotIsHeld
    BY DEF PassageInit, HoldsByStep, SlotIsHeld, Sent
  <1> QED
    BY <1>4, <1>5 DEF HandlerInv

LEMMA StageStep ==
    ASSUME PassageTypeOK, NEW c \in Call, NEW s \in Stages, At(c, s)
    PROVE  /\ step' \in [Call -> Stages] /\ step'[c] = s
           /\ \A d \in Call \ {c} : step'[d] = step[d]
  BY DEF PassageTypeOK, At

LEMMA PassageTypeStep == PassageTypeOK /\ [PassageNext]_passageVars => PassageTypeOK'
  <1> SUFFICES ASSUME PassageTypeOK, [PassageNext]_passageVars PROVE PassageTypeOK'
    OBVIOUS
  <1> USE DEF carried, breakerVars, heldVars, noteVars, refusedVars, blindVars, countVars
  <1>a. \A c \in Call : ask[c] \in AskType /\ rec[c] \in RecordType
    BY AskFacts DEF PassageTypeOK
  <1>b. \A c \in Call : ask[c].session \in BOOLEAN /\ rec[c].session \in BOOLEAN
    BY <1>a DEF AskType, RecordType
  <1>1. CASE UNCHANGED passageVars
    BY <1>1 DEF PassageTypeOK, passageVars
  <1>2. CASE Midnight
    <2>1. today \in 1..MaxToday
      BY DEF PassageTypeOK
    <2>2. today' \in 1..MaxToday
      BY <1>2, <2>1, DaysFact DEF Midnight
    <2> QED
      BY <1>2, <2>2 DEF PassageTypeOK, Midnight
  <1>3. ASSUME NEW c \in Call, receive(c) PROVE PassageTypeOK'
    <2>1. step' \in [Call -> Stages]
      BY <1>3, StageStep DEF receive, Stages
    <2>2. ask[c].path \in Paths
      BY <1>a DEF AskType
    <2>3. noted \in [Paths -> Nat] /\ told \in [Paths -> Nat]
      BY DEF PassageTypeOK
    <2>4. noted' \in [Paths -> Nat] /\ told' \in [Paths -> Nat]
      BY <1>3, <2>2, <2>3 DEF receive, note, seenOn
    <2> QED
      BY <1>3, <2>1, <2>4 DEF receive, PassageTypeOK
  <1>4. ASSUME NEW c \in Call, refuseTenant(c) \/ refuseOpen(c) PROVE PassageTypeOK'
    <2>1. step' \in [Call -> Stages]
      BY <1>4, StageStep DEF refuseTenant, refuseOpen, Stages
    <2>2. PICK k \in Refusals :
            rec' = [rec EXCEPT ![c] = [@ EXCEPT !.refusal = k, !.session = ask[c].session]]
      BY <1>4 DEF refuseTenant, refuseOpen, Refusals
    <2>x. [rec[c] EXCEPT !.refusal = k, !.session = ask[c].session] \in RecordType
      BY <1>a, <1>b, Refused
    <2>3. rec' \in [Call -> RecordType]
      BY <2>2, <2>x DEF PassageTypeOK
    <2> QED
      BY <1>4, <2>1, <2>3 DEF refuseTenant, refuseOpen, PassageTypeOK
  <1>5. ASSUME NEW c \in Call, NEW asProbe \in BOOLEAN, admit(c, asProbe) PROVE PassageTypeOK'
    <2>1. step' \in [Call -> Stages]
      BY <1>5, StageStep DEF admit, Stages
    <2>2. rec' = [rec EXCEPT ![c] = [@ EXCEPT !.session = ask[c].session]]
      BY <1>5 DEF admit
    <2>3. rec' \in [Call -> RecordType]
      BY <2>2, <1>b, Attributed DEF PassageTypeOK
    <2>4. probe' \subseteq Call /\ probing' \in BOOLEAN
      BY <1>5 DEF admit, PassageTypeOK
    <2> QED
      BY <1>5, <2>1, <2>3, <2>4 DEF admit, PassageTypeOK
  <1>6. ASSUME NEW c \in Call, turnAway(c) PROVE PassageTypeOK'
    <2>1. step' \in [Call -> Stages]
      BY <1>6, StageStep DEF turnAway, Stages
    <2> QED
      BY <1>6, <2>1 DEF turnAway, PassageTypeOK
  <1>7. ASSUME NEW c \in Call, NEW stored \in BOOLEAN,
               NEW guard \in {"none", "spend_cap", "error_budget", "loop", "preflight_deficit"},
               prepare(c, stored, guard)
        PROVE  PassageTypeOK'
    <2> DEFINE a == ask[c]
               r == [before |-> IF Guarded(a) THEN {} ELSE NoHash, after |-> NoHash,
                     masked |-> secretFound(a),
                     degraded |-> masks(a) /\ (~ stored \/ ~ isJSON(a)),
                     frozen |-> freezes(a), policy |-> "none",
                     session |-> rec[c].session \/ (summarizes(a) /\ a.named),
                     summarized |-> summarizes(a), refusal |-> guard]
    <2>1. step' \in [Call -> Stages]
      BY <1>7, StageStep DEF prepare, Stages
    <2>2. r \in RecordType
      <3>1. secretFound(a) \in BOOLEAN /\ freezes(a) \in BOOLEAN /\ summarizes(a) \in BOOLEAN
        BY DEF secretFound, freezes, summarizes, SummarizeRequest,
               SummarizeOpenAIRequest, SummarizeResponsesRequest
      <3>2. (masks(a) /\ (~ stored \/ ~ isJSON(a))) \in BOOLEAN
            /\ (rec[c].session \/ (summarizes(a) /\ a.named)) \in BOOLEAN
        OBVIOUS
      <3> QED
        BY <3>1, <3>2 DEF RecordType, Refusals, Rewrites
    <2>3. rec' = [rec EXCEPT ![c] = r]
      BY <1>7 DEF prepare, PassageTypeOK
    <2>4. rec' \in [Call -> RecordType]
      BY <2>2, <2>3 DEF PassageTypeOK
    <2>5. payload' \in [Call -> SUBSET Rewrites]
      BY <1>7 DEF prepare, Rewrites, PassageTypeOK
    <2> QED
      BY <1>7, <2>1, <2>4, <2>5 DEF prepare, PassageTypeOK
  <1>8. ASSUME NEW c \in Call, NEW applied \in BOOLEAN, enter(c, applied) PROVE PassageTypeOK'
    <2> DEFINE a == ask[c]
               body == payload[c] \cup (IF applied THEN {"edited"} ELSE {})
                       \cup (IF asksUsage(a) THEN {"usage asked"} ELSE {})
               policy == IF asksUsage(a) THEN "openai-include-usage"
                         ELSE IF applied THEN "context-edit" ELSE "none"
               after == IF Guarded(a) THEN body ELSE NoHash
    <2>1. step' \in [Call -> Stages]
      BY <1>8, StageStep DEF enter, Stages
    <2>2. body \in SUBSET Rewrites
      BY DEF Rewrites, PassageTypeOK
    <2>3. payload' \in [Call -> SUBSET Rewrites]
      BY <1>8, <2>2 DEF enter, PassageTypeOK
    <2>4. rec' = [rec EXCEPT ![c] = [@ EXCEPT !.policy = policy, !.after = after]]
      BY <1>8 DEF enter
    <2>5. after \in (SUBSET Rewrites) \cup {NoHash}
          /\ policy \in {"none", "context-edit", "openai-include-usage"}
      BY <2>2
    <2>6. rec' \in [Call -> RecordType]
      <3> HIDE DEF policy, after
      <3>1. [rec[c] EXCEPT !.policy = policy, !.after = after] \in RecordType
        BY <1>a, <2>5, Closed
      <3> QED
        BY <2>4, <3>1 DEF PassageTypeOK
    <2>7. inLane' \subseteq Call
      BY <1>8 DEF enter, PassageTypeOK
    <2> QED
      BY <1>8, <2>1, <2>3, <2>6, <2>7 DEF enter, PassageTypeOK
  <1>9. ASSUME NEW c \in Call, NEW leads \in BOOLEAN, forward(c, leads) PROVE PassageTypeOK'
    <2>1. step' \in [Call -> Stages]
      BY <1>9, StageStep DEF forward, Stages
    <2>2. leading' \subseteq Call /\ wire' \in [Call -> (SUBSET Rewrites) \cup {NotSent}]
      BY <1>9 DEF forward, PassageTypeOK
    <2> QED
      BY <1>9, <2>1, <2>2 DEF forward, PassageTypeOK
  <1>10. ASSUME NEW c \in Call, NEW y \in Replies \cup {NoReply}, respond(c, y)
         PROVE  PassageTypeOK'
    <2>1. step' \in [Call -> Stages]
      BY <1>10, StageStep DEF respond, Stages
    <2>2. leading' \subseteq Call /\ reply' \in [Call -> Replies \cup {NoReply}]
      BY <1>10 DEF respond, PassageTypeOK
    <2> QED
      BY <1>10, <2>1, <2>2 DEF respond, PassageTypeOK
  <1>11. ASSUME NEW c \in Call, observeOutcome(c) PROVE PassageTypeOK'
    <2>1. step' \in [Call -> Stages]
      BY <1>11, StageStep DEF observeOutcome, Stages
    <2>2. observed' \subseteq Call /\ probing' \in BOOLEAN
      BY <1>11 DEF observeOutcome, PassageTypeOK
    <2> QED
      BY <1>11, <2>1, <2>2 DEF observeOutcome, PassageTypeOK
  <1>12. ASSUME NEW c \in Call, price(c) PROVE PassageTypeOK'
    <2>1. step' \in [Call -> Stages]
      BY <1>12, StageStep DEF price, Stages
    <2>2. unused \in Nat /\ unreadable \in Nat /\ charged \subseteq Call
      BY DEF PassageTypeOK
    <2>3. unused' \in Nat /\ unreadable' \in Nat /\ charged' \subseteq Call
      BY <1>12, <2>2 DEF price
    <2> QED
      BY <1>12, <2>1, <2>3 DEF price, PassageTypeOK
  <1>13. ASSUME NEW c \in Call, count(c) PROVE PassageTypeOK'
    <2>1. step' \in [Call -> Stages]
      BY <1>13, StageStep DEF count, Stages
    <2>2. /\ latencyCount \in Nat /\ metered \in Nat /\ unpriced \in Nat /\ costUSD \in Nat
          /\ dayCostUSD \in Nat /\ dayStamp \in 0..MaxToday /\ today \in 1..MaxToday
          /\ booked \in [Call -> 0..MaxToday] /\ requests \in [Classes \cup {"refused"} -> Nat]
      BY DEF PassageTypeOK
    <2>3. latencyCount' \in Nat /\ metered' \in Nat /\ unpriced' \in Nat
      BY <1>13, <2>2 DEF count
    <2>4. costUSD' \in Nat /\ dayCostUSD' \in Nat /\ dayStamp' \in 0..MaxToday
      BY <1>13, <2>2, DaysFact DEF count, addCost
    <2>5. booked' \in [Call -> 0..MaxToday]
      BY <1>13, <2>2, DaysFact DEF count
    <2>6. requests' \in [Classes \cup {"refused"} -> Nat]
      BY <1>13, <2>2 DEF count, Class, Classes
    <2> QED
      BY <1>13, <2>1, <2>3, <2>4, <2>5, <2>6 DEF count, PassageTypeOK
  <1>14. ASSUME NEW c \in Call, leave(c) \/ handBack(c) PROVE PassageTypeOK'
    <2>1. step' \in [Call -> Stages]
      BY <1>14, StageStep DEF leave, handBack, Stages
    <2>2. /\ probing' \in BOOLEAN /\ returned' \subseteq Call
          /\ inLane' \subseteq Call /\ leading' \subseteq Call
      BY <1>14 DEF leave, handBack, PassageTypeOK
    <2> QED
      BY <1>14, <2>1, <2>2 DEF leave, handBack, PassageTypeOK
  <1>15. ASSUME NEW c \in Call, file(c) \/ recordRefusal(c) PROVE PassageTypeOK'
    <2>1. step' \in [Call -> Stages]
      BY <1>15, StageStep DEF file, recordRefusal, Stages
    <2>2. filed \in [Call -> Nat]
      BY DEF PassageTypeOK
    <2>3. filed' \in [Call -> Nat]
      BY <1>15, <2>2 DEF file, recordRefusal
    <2> QED
      BY <1>15, <2>1, <2>3 DEF file, recordRefusal, PassageTypeOK
  <1>16. ASSUME NEW c \in Call, refuse(c) PROVE PassageTypeOK'
    <2>1. step' \in [Call -> Stages]
      BY <1>16, StageStep DEF refuse, Stages
    <2>2. requests \in [Classes \cup {"refused"} -> Nat] /\ refusedByKind \in [Refusals -> Nat]
      BY DEF PassageTypeOK
    <2>3. requests' \in [Classes \cup {"refused"} -> Nat]
      BY <1>16, <2>2 DEF refuse
    <2>4. refusedByKind' \in [Refusals -> Nat]
      BY <1>16, <2>2, OneMore DEF refuse
    <2> QED
      BY <1>16, <2>1, <2>3, <2>4 DEF refuse, PassageTypeOK
  <1> QED
    BY <1>1, <1>2, <1>3, <1>4, <1>5, <1>6, <1>7, <1>8, <1>9, <1>10, <1>11, <1>12, <1>13, <1>14,
       <1>15, <1>16 DEF PassageNext

\* At(c, s) of the action, and what the others hold.
LEMMA HandlerStep == HandlerInv /\ [PassageNext]_passageVars => HandlerInv'
  <1> SUFFICES ASSUME HandlerInv, [PassageNext]_passageVars PROVE HandlerInv'
    OBVIOUS
  <1>t. PassageTypeOK /\ PassageTypeOK'
    BY PassageTypeStep DEF HandlerInv
  <1>h. HoldsByStep /\ SlotIsHeld
    BY DEF HandlerInv
  <1> SUFFICES HoldsByStep' /\ SlotIsHeld'
    BY <1>t DEF HandlerInv
  <1>n. \A c \in Call : payload[c] # NotSent
    BY <1>t DEF PassageTypeOK, Rewrites, NotSent
  <1>s. step \in [Call -> Stages] /\ probe \subseteq Call
    BY <1>t DEF PassageTypeOK
  <1> USE DEF HoldsByStep, SlotIsHeld, Sent
  <1> USE DEF carried, breakerVars, heldVars, noteVars, refusedVars, blindVars, countVars
  <1>1. CASE UNCHANGED passageVars
    BY <1>1, <1>h DEF passageVars
  <1>2. CASE Midnight
    BY <1>2, <1>h DEF Midnight
  <1>3. ASSUME NEW c \in Call, receive(c) PROVE HoldsByStep' /\ SlotIsHeld'
    <2>1. HoldsByStep'
      BY <1>3, <1>h, <1>s DEF receive, At
    <2>2. SlotIsHeld'
      BY <1>3, <1>h, <1>s DEF receive, At
    <2> QED
      BY <2>1, <2>2
  <1>4. ASSUME NEW c \in Call, refuseTenant(c) \/ refuseOpen(c) PROVE HoldsByStep' /\ SlotIsHeld'
    <2>1. CASE refuseTenant(c)
      BY <2>1, <1>h, <1>s DEF refuseTenant, At
    <2>2. CASE refuseOpen(c)
      BY <2>2, <1>h, <1>s DEF refuseOpen, At
    <2> QED
      BY <1>4, <2>1, <2>2
  <1>5. ASSUME NEW c \in Call, NEW asProbe \in BOOLEAN, admit(c, asProbe)
        PROVE  HoldsByStep' /\ SlotIsHeld'
    <2>1. HoldsByStep'
      BY <1>5, <1>h, <1>s DEF admit, At
    <2>2. SlotIsHeld'
      BY <1>5, <1>h, <1>s DEF admit, At
    <2> QED
      BY <2>1, <2>2
  <1>6. ASSUME NEW c \in Call, turnAway(c) PROVE HoldsByStep' /\ SlotIsHeld'
    BY <1>6, <1>h, <1>s DEF turnAway, At
  <1>7. ASSUME NEW c \in Call, NEW stored \in BOOLEAN,
               NEW guard \in {"none", "spend_cap", "error_budget", "loop", "preflight_deficit"},
               prepare(c, stored, guard)
        PROVE  HoldsByStep' /\ SlotIsHeld'
    BY <1>7, <1>h, <1>s DEF prepare, At
  <1>8. ASSUME NEW c \in Call, NEW applied \in BOOLEAN, enter(c, applied)
        PROVE  HoldsByStep' /\ SlotIsHeld'
    BY <1>8, <1>h, <1>s DEF enter, At
  <1>9. ASSUME NEW c \in Call, NEW leads \in BOOLEAN, forward(c, leads)
        PROVE  HoldsByStep' /\ SlotIsHeld'
    BY <1>9, <1>h, <1>s, <1>n, <1>t DEF forward, At, PassageTypeOK
  <1>10. ASSUME NEW c \in Call, NEW y \in Replies \cup {NoReply}, respond(c, y)
         PROVE  HoldsByStep' /\ SlotIsHeld'
    BY <1>10, <1>h, <1>s DEF respond, At
  <1>11. ASSUME NEW c \in Call, observeOutcome(c) PROVE HoldsByStep' /\ SlotIsHeld'
    BY <1>11, <1>h, <1>s DEF observeOutcome, At
  <1>12. ASSUME NEW c \in Call, price(c) PROVE HoldsByStep' /\ SlotIsHeld'
    BY <1>12, <1>h, <1>s DEF price, At
  <1>13. ASSUME NEW c \in Call, count(c) PROVE HoldsByStep' /\ SlotIsHeld'
    BY <1>13, <1>h, <1>s DEF count, At
  <1>14. ASSUME NEW c \in Call, leave(c) \/ file(c) PROVE HoldsByStep' /\ SlotIsHeld'
    <2>1. HoldsByStep'
      BY <1>14, <1>h, <1>s DEF leave, file, At
    <2>2. SlotIsHeld'
      BY <1>14, <1>h, <1>s DEF leave, file, At
    <2> QED
      BY <2>1, <2>2
  <1>15. ASSUME NEW c \in Call, recordRefusal(c) \/ refuse(c) PROVE HoldsByStep' /\ SlotIsHeld'
    <2>1. HoldsByStep'
      BY <1>15, <1>h, <1>s DEF recordRefusal, refuse, At
    <2>2. SlotIsHeld'
      BY <1>15, <1>h, <1>s DEF recordRefusal, refuse, At
    <2> QED
      BY <2>1, <2>2
  <1>16. ASSUME NEW c \in Call, handBack(c) PROVE HoldsByStep' /\ SlotIsHeld'
    <2>1. HoldsByStep'
      BY <1>16, <1>h, <1>s DEF handBack, At
    <2>2. SlotIsHeld'
      BY <1>16, <1>h, <1>s DEF handBack, At
    <2> QED
      BY <2>1, <2>2
  <1> QED
    BY <1>1, <1>2, <1>3, <1>4, <1>5, <1>6, <1>7, <1>8, <1>9, <1>10, <1>11, <1>12, <1>13, <1>14,
       <1>15, <1>16 DEF PassageNext

\* However requests are refused, turned away, abandoned or answered, in whatever
\* order, each gives back its lane, its flight and its probe slot.
THEOREM NothingIsLeftBehind == PassageSpec => []NothingLeftBehind
  <1>1. HandlerInv => NothingLeftBehind
    BY DEF HandlerInv, HoldsByStep, SlotIsHeld, NothingLeftBehind, Sent, PassageTypeOK
  <1> QED
    BY <1>1, HandlerInit, HandlerStep, PTL DEF PassageSpec

-----------------------------------------------------------------------------
(* The record.                                                               *)

Bare(c) == cfg.NoPolicy \/ ~ readable(ask[c].path)

\* Of a call whose bracket is closed.
Bracketed(c) ==
    /\ rec[c].refusal = "none" /\ payload[c] = Named(rec[c])
    /\ Guarded(ask[c]) => rec[c].before = {} /\ rec[c].after = payload[c]
    /\ Bare(c) => payload[c] = {}

\* Of a call the guards let through.
Opened(c) ==
    /\ rec[c].refusal = "none" /\ rec[c].policy = "none" /\ payload[c] = Named(rec[c])
    /\ Guarded(ask[c]) => rec[c].before = {}
    /\ Bare(c) => payload[c] = {}

RecordByStep ==
    \A c \in Call :
        /\ step[c] \in {"new", "noted", "admitted"} => rec[c].refusal = "none"
        /\ step[c] \in {"refusing", "refused"} => rec[c].refusal # "none"
        /\ step[c] = "guarded" => Opened(c)
        /\ step[c] \in Sent \cup {"in lane"} => Bracketed(c)
        /\ wire[c] # NotSent => Bracketed(c) /\ wire[c] = payload[c]

Due(c) == readable(ask[c].path) /\ rec[c].session

FiledAsDue(c) ==
    /\ step[c] \notin {"refused", "returning", "done"} => filed[c] = 0
    /\ step[c] = "refused" => filed[c] = 1
    /\ step[c] \in {"returning", "done"} =>
        /\ filed[c] \in {0, 1}
        /\ filed[c] = 1 <=> \/ rec[c].refusal # "none"
                            \/ wire[c] # NotSent /\ Due(c)

FiledByStep == \A c \in Call : FiledAsDue(c)

RecordInv == HandlerInv /\ RecordByStep /\ FiledByStep

\* Every rewrite has its conditions: none of a path that cannot be read, none
\* under REPLAY_NO_POLICY, and no two that share the record's policy field.
LEMMA RewriteFacts ==
    ASSUME NEW a
    PROVE  /\ secretFound(a) \/ freezes(a) \/ asksUsage(a) => readable(a.path) /\ ~ cfg.NoPolicy
           /\ asksUsage(a) => ~ isMessages(a.path)
  BY DEF secretFound, masks, freezes, asksUsage, readable, maskable, isMessages, isResponses,
         isChatCompletions, messagesPath, responsesPath, chatCompletionsPath

LEMMA PrepareOpens ==
    ASSUME HandlerInv, NEW c \in Call, NEW stored \in BOOLEAN, prepare(c, stored, "none")
    PROVE  Opened(c)'
  <1> DEFINE a == ask[c]
             found == secretFound(a)
             frozen == freezes(a)
             body == (IF found THEN {"masked"} ELSE {}) \cup (IF frozen THEN {"frozen"} ELSE {})
             r == [before |-> IF Guarded(a) THEN {} ELSE NoHash, after |-> NoHash,
                   masked |-> found, degraded |-> masks(a) /\ (~ stored \/ ~ isJSON(a)),
                   frozen |-> frozen, policy |-> "none",
                   session |-> rec[c].session \/ (summarizes(a) /\ a.named),
                   summarized |-> summarizes(a), refusal |-> "none"]
  <1>1. rec'[c] = r /\ payload'[c] = body /\ ask' = ask /\ cfg' = cfg
    BY DEF prepare, HandlerInv, PassageTypeOK
  <1>2. Named(r) = body
    <2> HIDE DEF found, frozen
    <2> QED
      BY DEF Named
  <1>3. Bare(c)' => ~ found /\ ~ frozen
    BY <1>1, RewriteFacts DEF Bare, readable, isMessages, isChatCompletions, isResponses
  <1>4. Guarded(ask[c])' = Guarded(a)
    BY <1>1 DEF Guarded, readable, isMessages, isChatCompletions, isResponses, hasBody
  <1>5. r.refusal = "none" /\ r.policy = "none" /\ (Guarded(a) => r.before = {})
    OBVIOUS
  <1>6. Named(rec[c])' = Named(r)
    BY <1>1 DEF Named
  <1> QED
    BY <1>1, <1>2, <1>3, <1>4, <1>5, <1>6 DEF Opened

LEMMA EnterBrackets ==
    ASSUME HandlerInv, NEW c \in Call, Opened(c), NEW applied \in BOOLEAN, enter(c, applied)
    PROVE  Bracketed(c)'
  <1> DEFINE a == ask[c]
             asks == asksUsage(a)
             body == payload[c] \cup (IF applied THEN {"edited"} ELSE {})
                     \cup (IF asks THEN {"usage asked"} ELSE {})
             policy == IF asks THEN "openai-include-usage"
                       ELSE IF applied THEN "context-edit" ELSE "none"
             after == IF Guarded(a) THEN body ELSE NoHash
  <1>1. rec[c] \in RecordType
    BY DEF HandlerInv, PassageTypeOK
  <1>2. rec'[c] = [rec[c] EXCEPT !.policy = policy, !.after = after]
        /\ payload'[c] = body /\ ask' = ask /\ cfg' = cfg
    BY DEF enter, HandlerInv, PassageTypeOK
  <1>3. /\ rec'[c].policy = policy /\ rec'[c].after = after /\ rec'[c].before = rec[c].before
        /\ rec'[c].masked = rec[c].masked /\ rec'[c].frozen = rec[c].frozen
        /\ rec'[c].refusal = rec[c].refusal
    <2> HIDE DEF policy, after
    <2> QED
      BY <1>1, <1>2 DEF RecordType
  <1>4. ~ (asks /\ applied)
    BY RewriteFacts DEF enter, mayEdit
  <1>5. Bare(c)' => Bare(c) /\ ~ asks /\ ~ applied
    BY <1>2, RewriteFacts
       DEF Bare, readable, isMessages, isChatCompletions, isResponses, enter, mayEdit,
           policyConfigured
  <1>6. Guarded(ask[c])' = Guarded(a)
    BY <1>2 DEF Guarded, readable, isMessages, isChatCompletions, isResponses, hasBody
  <1>7. Named(rec[c])' = body
    <2> HIDE DEF asks
    <2> QED
      BY <1>3, <1>4 DEF Named, Opened
  <1>8. Guarded(a) => after = body
    OBVIOUS
  <1> QED
    BY <1>2, <1>3, <1>5, <1>6, <1>7, <1>8 DEF Opened, Bracketed

LEMMA SameRecord ==
    ASSUME NEW d \in Call, cfg' = cfg, ask' = ask, payload'[d] = payload[d], rec'[d] = rec[d]
    PROVE  Opened(d)' = Opened(d) /\ Bracketed(d)' = Bracketed(d)
  <1>1. Named(rec[d])' = Named(rec[d]) /\ Bare(d)' = Bare(d)
        /\ Guarded(ask[d])' = Guarded(ask[d])
    BY DEF Named, Bare, Guarded, readable, isMessages, isChatCompletions, isResponses, hasBody
  <1> QED
    BY <1>1 DEF Opened, Bracketed

\* A step that leaves every record and body alone.
LEMMA QuietRecord ==
    ASSUME RecordInv, UNCHANGED <<cfg, ask, payload, rec>>,
           NEW c \in Call, NEW s \in Stages, At(c, s), wire' = wire,
           s \in {"noted", "admitted"} => step[c] \in {"new", "noted"},
           s # "new" /\ s # "guarded" /\ s # "refusing",
           s = "refused" => step[c] = "refusing",
           s \in Sent \cup {"in lane"} => step[c] \in Sent \cup {"in lane"}
    PROVE  RecordByStep'
  <1>1. \A d \in Call : Opened(d)' = Opened(d) /\ Bracketed(d)' = Bracketed(d)
    BY SameRecord
  <1>2. step'[c] = s /\ \A d \in Call \ {c} : step'[d] = step[d]
    BY StageStep DEF RecordInv, HandlerInv
  <1> QED
    BY <1>1, <1>2 DEF RecordInv, RecordByStep, Sent

\* A step that files nothing.
LEMMA QuietFiling ==
    ASSUME RecordInv, UNCHANGED <<ask, rec, wire, filed>>,
           NEW c \in Call, NEW s \in Stages, At(c, s),
           s # "refused", step[c] \notin {"returning", "done"} \/ s = "done",
           s = "done" => step[c] \in {"new", "returning"},
           step[c] = "refused" => s = "returning",
           s = "returning" => step[c] \in {"admitted", "refused"},
           step[c] \in {"new", "admitted"} => wire[c] = NotSent /\ rec[c].refusal = "none"
    PROVE  FiledByStep'
  <1>1. step'[c] = s /\ \A d \in Call \ {c} : step'[d] = step[d]
    BY StageStep DEF RecordInv, HandlerInv
  <1>2. \A d \in Call : Due(d)' = Due(d)
    BY DEF Due, readable, isMessages, isChatCompletions, isResponses
  <1>3. step[c] = "refused" => rec[c].refusal # "none"
    BY DEF RecordInv, RecordByStep
  <1>4. \A d \in Call \ {c} : FiledAsDue(d)' = FiledAsDue(d)
    BY <1>1, <1>2 DEF FiledAsDue
  <1>5. FiledAsDue(c)
    BY DEF RecordInv, FiledByStep
  <1>6. ASSUME s = "returning" PROVE FiledAsDue(c)'
    <2>1. step'[c] = "returning" /\ filed'[c] = filed[c] /\ wire'[c] = wire[c]
          /\ rec'[c] = rec[c] /\ Due(c)' = Due(c)
      BY <1>1, <1>2, <1>6
    <2>2. CASE step[c] = "admitted"
      <3>1. filed[c] = 0 /\ wire[c] = NotSent /\ rec[c].refusal = "none"
        BY <1>5, <2>2 DEF FiledAsDue
      <3> QED
        BY <2>1, <3>1 DEF FiledAsDue
    <2>3. CASE step[c] = "refused"
      <3>1. filed[c] = 1 /\ rec[c].refusal # "none"
        BY <1>3, <1>5, <2>3 DEF FiledAsDue
      <3> QED
        BY <2>1, <3>1 DEF FiledAsDue
    <2> QED
      BY <1>6, <2>2, <2>3
  <1>7. ASSUME s = "done" PROVE FiledAsDue(c)'
    <2>1. step'[c] = "done" /\ filed'[c] = filed[c] /\ wire'[c] = wire[c]
          /\ rec'[c] = rec[c] /\ Due(c)' = Due(c)
      BY <1>1, <1>2, <1>7
    <2>2. CASE step[c] = "new"
      <3>1. filed[c] = 0 /\ wire[c] = NotSent /\ rec[c].refusal = "none"
        BY <1>5, <2>2 DEF FiledAsDue
      <3> QED
        BY <2>1, <3>1 DEF FiledAsDue
    <2>3. CASE step[c] = "returning"
      BY <1>5, <2>1, <2>3 DEF FiledAsDue
    <2> QED
      BY <1>7, <2>2, <2>3
  <1>8. ASSUME s \notin {"returning", "done"} PROVE FiledAsDue(c)'
    BY <1>1, <1>5, <1>8 DEF FiledAsDue
  <1> QED
    BY <1>4, <1>6, <1>7, <1>8 DEF RecordInv, FiledByStep

\* A step that changes one record, of a call that has not been sent.
LEMMA OneRecord ==
    ASSUME RecordInv, UNCHANGED <<cfg, ask, wire, filed>>,
           NEW c \in Call, NEW s \in {"admitted", "refusing", "guarded", "in lane"}, At(c, s),
           \A d \in Call \ {c} : rec'[d] = rec[d] /\ payload'[d] = payload[d],
           step[c] \in {"noted", "admitted", "guarded"}, wire[c] = NotSent,
           s = "admitted" => rec'[c].refusal = "none", s = "refusing" => rec'[c].refusal # "none",
           s = "guarded" => Opened(c)', s = "in lane" => Bracketed(c)'
    PROVE  RecordByStep' /\ FiledByStep'
  <1>1. step'[c] = s /\ \A d \in Call \ {c} : step'[d] = step[d]
    BY StageStep DEF RecordInv, HandlerInv, Stages
  <1>2. \A d \in Call \ {c} : Opened(d)' = Opened(d) /\ Bracketed(d)' = Bracketed(d)
    BY SameRecord
  <1>3. \A d \in Call \ {c} : Due(d)' = Due(d)
    BY DEF Due, readable, isMessages, isChatCompletions, isResponses
  <1>4. filed[c] = 0
    BY DEF RecordInv, FiledByStep, FiledAsDue
  <1>5. RecordByStep'
    BY <1>1, <1>2 DEF RecordInv, RecordByStep, Sent
  <1>6. FiledByStep'
    BY <1>1, <1>3, <1>4 DEF RecordInv, FiledByStep, FiledAsDue
  <1> QED
    BY <1>5, <1>6

LEMMA RecordStep == RecordInv /\ [PassageNext]_passageVars => RecordInv'
  <1> SUFFICES ASSUME RecordInv, [PassageNext]_passageVars PROVE RecordInv'
    OBVIOUS
  <1>h. HandlerInv /\ HandlerInv' /\ RecordByStep /\ FiledByStep
    BY HandlerStep DEF RecordInv
  <1>t. /\ step \in [Call -> Stages] /\ filed \in [Call -> Nat] /\ rec \in [Call -> RecordType]
        /\ payload \in [Call -> SUBSET Rewrites]
        /\ wire \in [Call -> (SUBSET Rewrites) \cup {NotSent}]
    BY <1>h DEF HandlerInv, PassageTypeOK
  <1>w. \A c \in Call : step[c] \notin Sent \cup {"returning", "done"} => wire[c] = NotSent
    BY <1>h DEF HandlerInv, HoldsByStep
  <1> SUFFICES RecordByStep' /\ FiledByStep'
    BY <1>h DEF RecordInv
  <1> USE DEF carried
  <1>1. CASE UNCHANGED passageVars
    <2>1. UNCHANGED <<cfg, ask, payload, rec, step, wire, filed>>
      BY <1>1 DEF passageVars
    <2>2. \A d \in Call : Opened(d)' = Opened(d) /\ Bracketed(d)' = Bracketed(d)
      BY <2>1, SameRecord
    <2> QED
      BY <1>h, <2>1, <2>2 DEF RecordByStep, FiledByStep, FiledAsDue, Due, readable, isMessages,
         isChatCompletions, isResponses
  <1>2. CASE Midnight
    <2>1. UNCHANGED <<cfg, ask, payload, rec, step, wire, filed>>
      BY <1>2 DEF Midnight
    <2>2. \A d \in Call : Opened(d)' = Opened(d) /\ Bracketed(d)' = Bracketed(d)
      BY <2>1, SameRecord
    <2> QED
      BY <1>h, <2>1, <2>2 DEF RecordByStep, FiledByStep, FiledAsDue, Due, readable, isMessages,
         isChatCompletions, isResponses
  <1>3. ASSUME NEW c \in Call, receive(c) PROVE RecordByStep' /\ FiledByStep'
    <2>1. PICK s \in {"noted", "done"} : At(c, s) /\ step[c] = "new"
      BY <1>3 DEF receive
    <2>2. UNCHANGED <<cfg, ask, payload, rec, wire, filed>>
      BY <1>3 DEF receive
    <2>3. RecordByStep'
      BY <2>1, <2>2, QuietRecord DEF Stages, Sent
    <2>4. FiledByStep'
      BY <2>1, <2>2, QuietFiling, <1>w DEF Stages, Sent, RecordInv, RecordByStep
    <2> QED
      BY <2>3, <2>4
  <1>4. ASSUME NEW c \in Call, refuseTenant(c) \/ refuseOpen(c) PROVE RecordByStep' /\ FiledByStep'
    <2>1. PICK k \in Refusals :
            rec' = [rec EXCEPT ![c] = [@ EXCEPT !.refusal = k, !.session = ask[c].session]]
      BY <1>4 DEF refuseTenant, refuseOpen, Refusals
    <2>2. At(c, "refusing") /\ step[c] = "noted" /\ UNCHANGED <<cfg, ask, payload, wire, filed>>
      BY <1>4 DEF refuseTenant, refuseOpen
    <2>3. rec'[c].refusal # "none"
      BY <1>t, <2>1 DEF RecordType, Refusals
    <2>4. \A d \in Call \ {c} : rec'[d] = rec[d]
      BY <1>t, <2>1
    <2> QED
      BY <2>2, <2>3, <2>4, OneRecord, <1>w DEF Stages, Sent
  <1>5. ASSUME NEW c \in Call, NEW asProbe \in BOOLEAN, admit(c, asProbe)
        PROVE  RecordByStep' /\ FiledByStep'
    <2>1. rec' = [rec EXCEPT ![c] = [@ EXCEPT !.session = ask[c].session]]
      BY <1>5 DEF admit
    <2>2. At(c, "admitted") /\ step[c] = "noted" /\ UNCHANGED <<cfg, ask, payload, wire, filed>>
      BY <1>5 DEF admit
    <2>3. rec'[c].refusal = rec[c].refusal /\ rec[c].refusal = "none"
      BY <1>t, <1>h, <2>1, <2>2 DEF RecordType, RecordByStep
    <2>4. \A d \in Call \ {c} : rec'[d] = rec[d]
      BY <1>t, <2>1
    <2> QED
      BY <2>2, <2>3, <2>4, OneRecord, <1>w DEF Stages, Sent
  <1>6. ASSUME NEW c \in Call, turnAway(c) PROVE RecordByStep' /\ FiledByStep'
    <2>1. PICK s \in {"returning"} : At(c, s) /\ step[c] = "admitted"
      BY <1>6 DEF turnAway
    <2>2. UNCHANGED <<cfg, ask, payload, rec, wire, filed>>
      BY <1>6 DEF turnAway
    <2>3. RecordByStep'
      BY <2>1, <2>2, QuietRecord DEF Stages, Sent
    <2>4. FiledByStep'
      BY <2>1, <2>2, QuietFiling, <1>w DEF Stages, Sent, RecordInv, RecordByStep
    <2> QED
      BY <2>3, <2>4
  <1>7. ASSUME NEW c \in Call, NEW stored \in BOOLEAN,
               NEW guard \in {"none", "spend_cap", "error_budget", "loop", "preflight_deficit"},
               prepare(c, stored, guard)
        PROVE  RecordByStep' /\ FiledByStep'
    <2>1. step[c] = "admitted" /\ UNCHANGED <<cfg, ask, wire, filed>>
      BY <1>7 DEF prepare
    <2>2. \A d \in Call \ {c} : rec'[d] = rec[d] /\ payload'[d] = payload[d]
      BY <1>7, <1>t DEF prepare
    <2>3. rec'[c].refusal = guard
      BY <1>7, <1>t DEF prepare
    <2>4. CASE guard = "none"
      <3>1. Opened(c)'
        BY <1>7, <1>h, <2>4, PrepareOpens
      <3>2. At(c, "guarded")
        BY <1>7, <2>4 DEF prepare
      <3> QED
        BY <2>1, <2>2, <3>1, <3>2, OneRecord, <1>w DEF Stages, Sent
    <2>5. CASE guard # "none"
      <3>1. At(c, "refusing")
        BY <1>7, <2>5 DEF prepare
      <3> QED
        BY <2>1, <2>2, <2>3, <2>5, <3>1, OneRecord, <1>w DEF Stages, Sent
    <2> QED
      BY <2>4, <2>5
  <1>8. ASSUME NEW c \in Call, NEW applied \in BOOLEAN, enter(c, applied)
        PROVE  RecordByStep' /\ FiledByStep'
    <2>1. step[c] = "guarded" /\ At(c, "in lane") /\ UNCHANGED <<cfg, ask, wire, filed>>
      BY <1>8 DEF enter
    <2>2. \A d \in Call \ {c} : rec'[d] = rec[d] /\ payload'[d] = payload[d]
      BY <1>8, <1>t DEF enter
    <2>3. Bracketed(c)'
      BY <1>8, <1>h, <2>1, EnterBrackets DEF RecordByStep
    <2> QED
      BY <2>1, <2>2, <2>3, OneRecord, <1>w DEF Stages, Sent
  <1>9. ASSUME NEW c \in Call, NEW leads \in BOOLEAN, forward(c, leads)
        PROVE  RecordByStep' /\ FiledByStep'
    <2>1. step[c] = "in lane" /\ At(c, "upstream") /\ UNCHANGED <<cfg, ask, payload, rec, filed>>
      BY <1>9 DEF forward
    <2>2. wire'[c] = payload'[c] /\ \A d \in Call \ {c} : wire'[d] = wire[d]
      BY <1>9, <1>t DEF forward
    <2>3. step'[c] = "upstream" /\ \A d \in Call \ {c} : step'[d] = step[d]
      BY <2>1, <1>t DEF At
    <2>4. \A d \in Call : Opened(d)' = Opened(d) /\ Bracketed(d)' = Bracketed(d)
      BY <2>1, SameRecord
    <2>5. RecordByStep'
      BY <1>h, <2>1, <2>2, <2>3, <2>4 DEF RecordByStep, Sent
    <2>6. \A d \in Call : Due(d)' = Due(d)
      BY <2>1 DEF Due, readable, isMessages, isChatCompletions, isResponses
    <2>7. FiledByStep'
      BY <1>h, <2>1, <2>2, <2>3, <2>6 DEF FiledByStep, FiledAsDue
    <2> QED
      BY <2>5, <2>7
  <1>10. ASSUME NEW c \in Call, NEW y \in Replies \cup {NoReply}, respond(c, y)
         PROVE  RecordByStep' /\ FiledByStep'
    <2>1. PICK s \in {"replied"} : At(c, s) /\ step[c] = "upstream"
      BY <1>10 DEF respond
    <2>2. UNCHANGED <<cfg, ask, payload, rec, wire, filed>>
      BY <1>10 DEF respond
    <2>3. RecordByStep'
      BY <2>1, <2>2, QuietRecord DEF Stages, Sent
    <2>4. FiledByStep'
      BY <2>1, <2>2, QuietFiling, <1>w DEF Stages, Sent, RecordInv, RecordByStep
    <2> QED
      BY <2>3, <2>4
  <1>11. ASSUME NEW c \in Call, observeOutcome(c) PROVE RecordByStep' /\ FiledByStep'
    <2>1. PICK s \in {"observed"} : At(c, s) /\ step[c] = "replied"
      BY <1>11 DEF observeOutcome
    <2>2. UNCHANGED <<cfg, ask, payload, rec, wire, filed>>
      BY <1>11 DEF observeOutcome
    <2>3. RecordByStep'
      BY <2>1, <2>2, QuietRecord DEF Stages, Sent
    <2>4. FiledByStep'
      BY <2>1, <2>2, QuietFiling, <1>w DEF Stages, Sent, RecordInv, RecordByStep
    <2> QED
      BY <2>3, <2>4
  <1>12. ASSUME NEW c \in Call, price(c) PROVE RecordByStep' /\ FiledByStep'
    <2>1. PICK s \in {"priced"} : At(c, s) /\ step[c] = "observed"
      BY <1>12 DEF price
    <2>2. UNCHANGED <<cfg, ask, payload, rec, wire, filed>>
      BY <1>12 DEF price
    <2>3. RecordByStep'
      BY <2>1, <2>2, QuietRecord DEF Stages, Sent
    <2>4. FiledByStep'
      BY <2>1, <2>2, QuietFiling, <1>w DEF Stages, Sent, RecordInv, RecordByStep
    <2> QED
      BY <2>3, <2>4
  <1>13. ASSUME NEW c \in Call, count(c) PROVE RecordByStep' /\ FiledByStep'
    <2>1. PICK s \in {"counted"} : At(c, s) /\ step[c] = "priced"
      BY <1>13 DEF count
    <2>2. UNCHANGED <<cfg, ask, payload, rec, wire, filed>>
      BY <1>13 DEF count
    <2>3. RecordByStep'
      BY <2>1, <2>2, QuietRecord DEF Stages, Sent
    <2>4. FiledByStep'
      BY <2>1, <2>2, QuietFiling, <1>w DEF Stages, Sent, RecordInv, RecordByStep
    <2> QED
      BY <2>3, <2>4
  <1>14. ASSUME NEW c \in Call, leave(c) PROVE RecordByStep' /\ FiledByStep'
    <2>1. PICK s \in {"left"} : At(c, s) /\ step[c] = "counted"
      BY <1>14 DEF leave
    <2>2. UNCHANGED <<cfg, ask, payload, rec, wire, filed>>
      BY <1>14 DEF leave
    <2>3. RecordByStep'
      BY <2>1, <2>2, QuietRecord DEF Stages, Sent
    <2>4. FiledByStep'
      BY <2>1, <2>2, QuietFiling, <1>w DEF Stages, Sent, RecordInv, RecordByStep
    <2> QED
      BY <2>3, <2>4
  <1>15. ASSUME NEW c \in Call, file(c) PROVE RecordByStep' /\ FiledByStep'
    <2>1. step[c] = "left" /\ At(c, "returning") /\ UNCHANGED <<cfg, ask, payload, rec, wire>>
      BY <1>15 DEF file
    <2>2. filed'[c] = IF Due(c) THEN filed[c] + 1 ELSE filed[c]
      BY <1>15, <1>t DEF file, Due
    <2>x. \A d \in Call \ {c} : filed'[d] = filed[d]
      BY <1>15, <1>t DEF file
    <2>3. step'[c] = "returning" /\ \A d \in Call \ {c} : step'[d] = step[d]
      BY <2>1, <1>t DEF At
    <2>4. RecordByStep'
      BY <2>1, QuietRecord DEF Stages, Sent
    <2>5. \A d \in Call : Due(d)' = Due(d)
      BY <2>1 DEF Due, readable, isMessages, isChatCompletions, isResponses
    <2>6. filed[c] = 0 /\ wire[c] # NotSent /\ rec[c].refusal = "none"
      BY <1>h, <2>1 DEF FiledByStep, FiledAsDue, RecordByStep, HandlerInv, HoldsByStep, Sent,
         Bracketed
    <2>7. \A d \in Call \ {c} : FiledAsDue(d)' = FiledAsDue(d)
      BY <2>1, <2>x, <2>3, <2>5 DEF FiledAsDue
    <2>8. FiledAsDue(c)'
      <3>1. ASSUME Due(c) PROVE filed'[c] = 1
        <4>1. filed'[c] = filed[c] + 1
          BY <2>2, <3>1
        <4> QED
          BY <2>6, <4>1
      <3>2. ASSUME ~ Due(c) PROVE filed'[c] = 0
        <4>1. filed'[c] = filed[c]
          BY <2>2, <3>2
        <4> QED
          BY <2>6, <4>1
      <3> QED
        BY <2>1, <2>3, <2>5, <2>6, <3>1, <3>2 DEF FiledAsDue
    <2>9. FiledByStep'
      BY <1>h, <2>7, <2>8 DEF FiledByStep
    <2> QED
      BY <2>4, <2>9
  <1>16. ASSUME NEW c \in Call, recordRefusal(c) PROVE RecordByStep' /\ FiledByStep'
    <2>1. step[c] = "refusing" /\ At(c, "refused") /\ UNCHANGED <<cfg, ask, payload, rec, wire>>
      BY <1>16 DEF recordRefusal
    <2>2. filed'[c] = filed[c] + 1 /\ \A d \in Call \ {c} : filed'[d] = filed[d]
      BY <1>16, <1>t DEF recordRefusal
    <2>3. step'[c] = "refused" /\ \A d \in Call \ {c} : step'[d] = step[d]
      BY <2>1, <1>t DEF At
    <2>4. RecordByStep'
      BY <2>1, QuietRecord DEF Stages, Sent
    <2>5. \A d \in Call : Due(d)' = Due(d)
      BY <2>1 DEF Due, readable, isMessages, isChatCompletions, isResponses
    <2>6. filed[c] = 0
      BY <1>h, <2>1 DEF FiledByStep, FiledAsDue
    <2>7. \A d \in Call \ {c} : FiledAsDue(d)' = FiledAsDue(d)
      BY <2>1, <2>2, <2>3, <2>5 DEF FiledAsDue
    <2>8. FiledAsDue(c)'
      BY <2>2, <2>3, <2>6 DEF FiledAsDue
    <2>9. FiledByStep'
      BY <1>h, <2>7, <2>8 DEF FiledByStep
    <2> QED
      BY <2>4, <2>9
  <1>17. ASSUME NEW c \in Call, refuse(c) PROVE RecordByStep' /\ FiledByStep'
    <2>1. PICK s \in {"returning"} : At(c, s) /\ step[c] = "refused"
      BY <1>17 DEF refuse
    <2>2. UNCHANGED <<cfg, ask, payload, rec, wire, filed>>
      BY <1>17 DEF refuse
    <2>3. RecordByStep'
      BY <2>1, <2>2, QuietRecord DEF Stages, Sent
    <2>4. FiledByStep'
      BY <2>1, <2>2, QuietFiling, <1>w DEF Stages, Sent, RecordInv, RecordByStep
    <2> QED
      BY <2>3, <2>4
  <1>18. ASSUME NEW c \in Call, handBack(c) PROVE RecordByStep' /\ FiledByStep'
    <2>1. PICK s \in {"done"} : At(c, s) /\ step[c] = "returning"
      BY <1>18 DEF handBack
    <2>2. UNCHANGED <<cfg, ask, payload, rec, wire, filed>>
      BY <1>18 DEF handBack
    <2>3. RecordByStep'
      BY <2>1, <2>2, QuietRecord DEF Stages, Sent
    <2>4. FiledByStep'
      BY <2>1, <2>2, QuietFiling, <1>w DEF Stages, Sent, RecordInv, RecordByStep
    <2> QED
      BY <2>3, <2>4
  <1> QED
    BY <1>1, <1>2, <1>3, <1>4, <1>5, <1>6, <1>7, <1>8, <1>9, <1>10, <1>11, <1>12, <1>13, <1>14,
       <1>15, <1>16, <1>17, <1>18 DEF PassageNext

\* For any set of requests and any way of starting the proxy: the second hash is
\* that of the bytes that went out, the record names exactly the rewrites between
\* the two, and no request has two records or, where it should have one, none.
THEOREM RecordIsAlwaysTrue == PassageSpec => []RecordIsTrue
  <1>1. PassageInit => RecordInv
    <2> SUFFICES ASSUME PassageInit PROVE RecordInv
      OBVIOUS
    <2>1. \A c \in Call : /\ step[c] = "new" /\ rec[c].refusal = "none"
                          /\ wire[c] = NotSent /\ filed[c] = 0
      BY DEF PassageInit, Fresh
    <2> QED
      BY <2>1, HandlerInit DEF RecordInv, RecordByStep, FiledByStep, FiledAsDue, Sent
  <1>2. RecordInv => RecordIsTrue
    <2> SUFFICES ASSUME RecordInv PROVE RecordIsTrue
      OBVIOUS
    <2>1. \A c \in Call : filed[c] <= 1
      <3> SUFFICES ASSUME NEW c \in Call PROVE filed[c] <= 1
        OBVIOUS
      <3>1. filed[c] \in {0, 1}
        BY DEF RecordInv, FiledByStep, FiledAsDue
      <3> QED
        BY <3>1
    <2>2. RecordedOnce
      BY <2>1 DEF RecordInv, FiledByStep, FiledAsDue, Due, RecordedOnce
    <2>3. BracketIsTrue
      BY DEF RecordInv, RecordByStep, Bracketed, Bare, BracketIsTrue
    <2> QED
      BY <2>2, <2>3 DEF RecordIsTrue
  <1> QED
    BY <1>1, <1>2, RecordStep, PTL DEF PassageSpec

-----------------------------------------------------------------------------
(* The figures.                                                              *)

SilentCalls ==
    {c \in PastPrice : readable(ask[c].path) /\ Succeeded(c) /\ ~ HasUsage(c)
                       /\ reply[c].body # "unread"}
GarbledCalls ==
    {c \in PastPrice : readable(ask[c].path) /\ Succeeded(c) /\ ~ HasUsage(c)
                       /\ reply[c].body = "unread"}
MeteredCalls == {c \in PastCount : Metered(c)}

SpendIsSeen ==
    /\ charged = {c \in PastPrice : HasUsage(c)}
    /\ unused = Cardinality(SilentCalls) /\ unreadable = Cardinality(GarbledCalls)

CallsAreCounted ==
    /\ latencyCount = Cardinality(PastCount)
    /\ metered = costUSD + unpriced /\ metered = Cardinality(MeteredCalls)

BookedOn(n) == {c \in Call : booked[c] = n}

DayIsBooked ==
    /\ dayStamp <= today /\ \A c \in Call : booked[c] <= dayStamp
    /\ \A c \in Call : c \notin PastCount => booked[c] = 0
    /\ dayStamp # 0 => dayCostUSD = Cardinality(BookedOn(dayStamp))

ToldOnce == \A p \in Paths : told[p] = IF noted[p] = 0 THEN 0 ELSE 1

FiguresInv == HandlerInv /\ SpendIsSeen /\ CallsAreCounted /\ DayIsBooked /\ ToldOnce

figureVars == <<charged, unused, unreadable, latencyCount, metered, unpriced, costUSD,
                dayCostUSD, dayStamp, booked>>

\* What a call's figures were counted from does not change any more.
FiguresStand ==
    \A d \in PastPrice : reply'[d] = reply[d] /\ rec'[d].session = rec[d].session

LEMMA CallsAreFinite == \A S \in SUBSET Call : IsFiniteSet(S) /\ Cardinality(S) \in Nat
  BY PassageAssumption, FS_Subset, FS_CardinalityType

\* What is asked of a call for its figures stands once it is past the provider.
LEMMA SameFigures ==
    ASSUME NEW d \in Call, ask'[d] = ask[d], reply'[d] = reply[d], rec'[d].session = rec[d].session
    PROVE  /\ readable(ask[d].path)' = readable(ask[d].path) /\ Succeeded(d)' = Succeeded(d)
           /\ HasUsage(d)' = HasUsage(d) /\ Metered(d)' = Metered(d) /\ Priced(d)' = Priced(d)
  BY DEF readable, isMessages, isChatCompletions, isResponses, Succeeded, HasUsage, Metered, Priced

\* A step of a call that is before its pricing, or past its counting, or moves
\* from pricing to counting, without changing a figure.
LEMMA QuietFigures ==
    ASSUME FiguresInv, HandlerInv', NEW c \in Call, NEW s \in Stages, At(c, s),
           UNCHANGED figureVars, UNCHANGED <<today, ask>>,
           FiguresStand,
           \A d \in Call \ {c} : wire'[d] = wire[d],
           c \in PastPrice' <=> c \in PastPrice, c \in PastCount' <=> c \in PastCount
    PROVE  SpendIsSeen' /\ CallsAreCounted' /\ DayIsBooked'
  <1>1. \A d \in Call \ {c} : step'[d] = step[d]
    BY StageStep DEF FiguresInv, HandlerInv
  <1>2. \A d \in Call \ {c} : (d \in PastPrice' <=> d \in PastPrice)
                              /\ (d \in PastCount' <=> d \in PastCount)
    BY <1>1 DEF PastPrice, PastCount, Past
  <1>3. PastPrice' = PastPrice /\ PastCount' = PastCount
    BY <1>2 DEF PastPrice, PastCount, Past
  <1>4. \A d \in PastCount : d \in PastPrice
    BY DEF PastPrice, PastCount, Past
  <1>5. \A d \in PastPrice : /\ readable(ask[d].path)' = readable(ask[d].path)
                             /\ Succeeded(d)' = Succeeded(d) /\ HasUsage(d)' = HasUsage(d)
                             /\ Metered(d)' = Metered(d) /\ reply'[d] = reply[d]
    BY SameFigures DEF PastPrice, Past, FiguresStand
  <1>6. SilentCalls' = SilentCalls /\ GarbledCalls' = GarbledCalls /\ MeteredCalls' = MeteredCalls
    BY <1>3, <1>4, <1>5 DEF SilentCalls, GarbledCalls, MeteredCalls
  <1>7. {d \in PastPrice : HasUsage(d)}' = {d \in PastPrice : HasUsage(d)}
    BY <1>3, <1>5
  <1>8. SpendIsSeen'
    BY <1>6, <1>7 DEF FiguresInv, SpendIsSeen, figureVars
  <1>9. CallsAreCounted'
    BY <1>3, <1>6 DEF FiguresInv, CallsAreCounted, figureVars
  <1>10. DayIsBooked'
    BY <1>3 DEF FiguresInv, DayIsBooked, BookedOn, figureVars
  <1> QED
    BY <1>8, <1>9, <1>10

LEMMA PriceFigures ==
    ASSUME FiguresInv, NEW c \in Call, price(c)
    PROVE  SpendIsSeen' /\ CallsAreCounted' /\ DayIsBooked'
  <1> USE DEF carried, countVars
  <1>1. step'[c] = "priced" /\ \A d \in Call \ {c} : step'[d] = step[d]
    BY StageStep DEF FiguresInv, HandlerInv, price, Stages
  <1>2. step[c] = "observed" /\ wire[c] # NotSent
    BY DEF FiguresInv, HandlerInv, HoldsByStep, Sent, price
  <1>3. UNCHANGED <<ask, rec, reply, wire, today, latencyCount, metered, unpriced, costUSD,
                    dayCostUSD, dayStamp, booked>>
    BY DEF price
  <1>4. PastPrice' = PastPrice \cup {c} /\ c \notin PastPrice /\ PastCount' = PastCount
    BY <1>1, <1>2, <1>3 DEF PastPrice, PastCount, Past
  <1>5. \A d \in Call : /\ readable(ask[d].path)' = readable(ask[d].path)
                        /\ Succeeded(d)' = Succeeded(d) /\ HasUsage(d)' = HasUsage(d)
                        /\ Metered(d)' = Metered(d) /\ reply'[d] = reply[d]
    BY <1>3, SameFigures
  <1>6. PastPrice \subseteq Call /\ PastCount \subseteq Call
    BY DEF PastPrice, PastCount, Past
  <1> DEFINE quiet == readable(ask[c].path) /\ Succeeded(c) /\ ~ HasUsage(c)
             garbled == reply[c].body = "unread"
  <1>7. /\ charged' = IF HasUsage(c) THEN charged \cup {c} ELSE charged
        /\ unused' = IF quiet /\ ~ garbled THEN unused + 1 ELSE unused
        /\ unreadable' = IF quiet /\ garbled THEN unreadable + 1 ELSE unreadable
    BY DEF price
  <1>8. /\ SilentCalls' = IF quiet /\ ~ garbled THEN SilentCalls \cup {c} ELSE SilentCalls
        /\ GarbledCalls' = IF quiet /\ garbled THEN GarbledCalls \cup {c} ELSE GarbledCalls
    BY <1>4, <1>5, <1>6 DEF SilentCalls, GarbledCalls
  <1>9. c \notin SilentCalls /\ c \notin GarbledCalls
    BY <1>4 DEF SilentCalls, GarbledCalls
  <1>10. SilentCalls \in SUBSET Call /\ GarbledCalls \in SUBSET Call
    BY <1>6 DEF SilentCalls, GarbledCalls
  <1>11. /\ Cardinality(SilentCalls \cup {c}) = Cardinality(SilentCalls) + 1
         /\ Cardinality(GarbledCalls \cup {c}) = Cardinality(GarbledCalls) + 1
    BY <1>9, <1>10, CallsAreFinite, FS_AddElement
  <1>12. charged' = {d \in PastPrice : HasUsage(d)}'
    BY <1>4, <1>5, <1>6, <1>7 DEF FiguresInv, SpendIsSeen
  <1>13. SpendIsSeen'
    <2> HIDE DEF quiet, garbled
    <2> QED
      BY <1>7, <1>8, <1>11, <1>12 DEF FiguresInv, SpendIsSeen
  <1>14. MeteredCalls' = MeteredCalls
    BY <1>4, <1>5, <1>6 DEF MeteredCalls
  <1>15. CallsAreCounted'
    BY <1>3, <1>4, <1>14 DEF FiguresInv, CallsAreCounted
  <1>16. DayIsBooked'
    BY <1>3, <1>4 DEF FiguresInv, DayIsBooked, BookedOn
  <1> QED
    BY <1>13, <1>15, <1>16

LEMMA CountFigures ==
    ASSUME FiguresInv, NEW c \in Call, count(c)
    PROVE  SpendIsSeen' /\ CallsAreCounted' /\ DayIsBooked'
  <1> USE DEF carried, blindVars
  <1>1. step'[c] = "counted" /\ \A d \in Call \ {c} : step'[d] = step[d]
    BY StageStep DEF FiguresInv, HandlerInv, count, Stages
  <1>2. step[c] = "priced" /\ wire[c] # NotSent
    BY DEF FiguresInv, HandlerInv, HoldsByStep, Sent, count
  <1>3. UNCHANGED <<ask, rec, reply, wire, today, charged, unused, unreadable>>
    BY DEF count
  <1>4. PastCount' = PastCount \cup {c} /\ c \notin PastCount /\ PastPrice' = PastPrice
    BY <1>1, <1>2, <1>3 DEF PastPrice, PastCount, Past
  <1>5. \A d \in Call : /\ readable(ask[d].path)' = readable(ask[d].path)
                        /\ Succeeded(d)' = Succeeded(d) /\ HasUsage(d)' = HasUsage(d)
                        /\ Metered(d)' = Metered(d) /\ reply'[d] = reply[d]
    BY <1>3, SameFigures
  <1>6. PastPrice \in SUBSET Call /\ PastCount \in SUBSET Call /\ MeteredCalls \in SUBSET Call
    BY DEF PastPrice, PastCount, Past, MeteredCalls
  <1>7. SilentCalls' = SilentCalls /\ GarbledCalls' = GarbledCalls
        /\ {d \in PastPrice : HasUsage(d)}' = {d \in PastPrice : HasUsage(d)}
    BY <1>4, <1>5, <1>6 DEF SilentCalls, GarbledCalls
  <1>8. SpendIsSeen'
    BY <1>3, <1>7 DEF FiguresInv, SpendIsSeen
  <1>9. MeteredCalls' = IF Metered(c) THEN MeteredCalls \cup {c} ELSE MeteredCalls
    BY <1>4, <1>5, <1>6 DEF MeteredCalls
  <1>10. c \notin MeteredCalls
    BY <1>4 DEF MeteredCalls
  <1>11. /\ Cardinality(MeteredCalls \cup {c}) = Cardinality(MeteredCalls) + 1
         /\ Cardinality(PastCount \cup {c}) = Cardinality(PastCount) + 1
    BY <1>4, <1>6, <1>10, CallsAreFinite, FS_AddElement
  <1>12. /\ latencyCount \in Nat /\ metered \in Nat /\ unpriced \in Nat /\ costUSD \in Nat
         /\ dayCostUSD \in Nat /\ dayStamp \in Nat /\ today \in Nat \ {0}
         /\ booked \in [Call -> Nat]
    BY DaysFact DEF FiguresInv, HandlerInv, PassageTypeOK
  <1>13. Priced(c) => Metered(c)
    BY DEF Priced
  <1>14. /\ latencyCount' = latencyCount + 1
         /\ metered' = IF Metered(c) THEN metered + 1 ELSE metered
         /\ unpriced' = IF Metered(c) /\ ~ Priced(c) THEN unpriced + 1 ELSE unpriced
         /\ costUSD' = IF Priced(c) THEN costUSD + 1 ELSE costUSD
    BY DEF count, addCost
  <1>15. CallsAreCounted'
    BY <1>4, <1>9, <1>11, <1>12, <1>13, <1>14 DEF FiguresInv, CallsAreCounted
  <1>16. CASE ~ Priced(c)
    <2>1. UNCHANGED <<dayCostUSD, dayStamp, booked>>
      BY <1>16 DEF count
    <2>2. DayIsBooked'
      BY <1>3, <1>4, <2>1 DEF FiguresInv, DayIsBooked, BookedOn
    <2> QED
      BY <1>8, <1>15, <2>2
  <1>17. CASE Priced(c)
    <2>1. /\ dayCostUSD' = (IF dayStamp = today THEN dayCostUSD ELSE 0) + 1
          /\ dayStamp' = today /\ today' = today /\ booked' = [booked EXCEPT ![c] = today]
      BY <1>3, <1>17 DEF count, addCost
    <2>2. booked[c] = 0 /\ \A d \in Call : booked[d] <= dayStamp
      BY <1>4 DEF FiguresInv, DayIsBooked
    <2>3. BookedOn(dayStamp)' = BookedOn(today) \cup {c}
      BY <2>1, <1>12 DEF BookedOn
    <2>4. c \notin BookedOn(today) /\ BookedOn(today) \in SUBSET Call
      BY <1>12, <2>2 DEF BookedOn
    <2>5. Cardinality(BookedOn(dayStamp)') = Cardinality(BookedOn(today)) + 1
      BY <2>3, <2>4, CallsAreFinite, FS_AddElement
    <2>6. Cardinality(BookedOn(today)) = IF dayStamp = today THEN dayCostUSD ELSE 0
      <3>1. CASE dayStamp = today
        BY <3>1, <1>12 DEF FiguresInv, DayIsBooked
      <3>2. CASE dayStamp # today
        <4>1. dayStamp < today
          BY <3>2, <1>12 DEF FiguresInv, DayIsBooked
        <4>2. BookedOn(today) = {}
          BY <2>2, <4>1, <1>12 DEF BookedOn
        <4> QED
          BY <3>2, <4>2, FS_EmptySet
      <3> QED
        BY <3>1, <3>2
    <2>7. dayStamp' <= today' /\ \A d \in Call : booked'[d] <= dayStamp'
      <3>1. \A d \in Call : booked'[d] = IF d = c THEN today ELSE booked[d]
        BY <2>1, <1>12
      <3>2. dayStamp <= today
        BY DEF FiguresInv, DayIsBooked
      <3> QED
        BY <2>1, <2>2, <3>1, <3>2, <1>12
    <2>8. \A d \in Call : d \notin PastCount' => booked'[d] = 0
      BY <1>4, <1>12, <2>1 DEF FiguresInv, DayIsBooked
    <2>9. DayIsBooked'
      BY <2>1, <2>5, <2>6, <2>7, <2>8 DEF DayIsBooked
    <2> QED
      BY <1>8, <1>15, <2>9
  <1> QED
    BY <1>16, <1>17

LEMMA ReceiveTells ==
    ASSUME PassageTypeOK, ToldOnce, NEW c \in Call, receive(c)
    PROVE  ToldOnce'
  <1>1. noted \in [Paths -> Nat] /\ told \in [Paths -> Nat]
    BY DEF PassageTypeOK
  <1>2. CASE UNCHANGED noteVars
    BY <1>2 DEF ToldOnce, noteVars
  <1>3. CASE note(ask[c].path)
    BY <1>1, <1>3 DEF note, seenOn, ToldOnce
  <1> QED
    BY <1>2, <1>3 DEF receive

LEMMA FiguresStep == FiguresInv /\ [PassageNext]_passageVars => FiguresInv'
  <1> SUFFICES ASSUME FiguresInv, [PassageNext]_passageVars PROVE FiguresInv'
    OBVIOUS
  <1>h. HandlerInv /\ HandlerInv'
    BY HandlerStep DEF FiguresInv
  <1>t. /\ step \in [Call -> Stages] /\ rec \in [Call -> RecordType]
        /\ payload \in [Call -> SUBSET Rewrites] /\ reply \in [Call -> Replies \cup {NoReply}]
        /\ wire \in [Call -> (SUBSET Rewrites) \cup {NotSent}]
        /\ noted \in [Paths -> Nat] /\ told \in [Paths -> Nat]
    BY <1>h DEF HandlerInv, PassageTypeOK
  <1>w. \A c \in Call : step[c] \notin Sent \cup {"returning", "done"} => wire[c] = NotSent
    BY <1>h DEF HandlerInv, HoldsByStep
  <1>v. \A c \in Call : step[c] \in Sent => wire[c] # NotSent
    BY <1>h DEF HandlerInv, HoldsByStep
  <1> USE DEF carried, noteVars, blindVars, countVars
  <1>1. CASE UNCHANGED passageVars
    BY <1>1, <1>h DEF passageVars, FiguresInv, SpendIsSeen, CallsAreCounted, DayIsBooked, ToldOnce,
       SilentCalls, GarbledCalls, MeteredCalls, BookedOn, PastPrice, PastCount, Past, readable,
       isMessages, isChatCompletions, isResponses, Succeeded, HasUsage, Metered
  <1>2. CASE Midnight
    <2>1. /\ UNCHANGED <<ask, rec, reply, wire, step, noted, told>> /\ UNCHANGED figureVars
          /\ today' = today + 1
      BY <1>2 DEF Midnight, figureVars
    <2>2. \A d \in Call : /\ readable(ask[d].path)' = readable(ask[d].path)
                          /\ Succeeded(d)' = Succeeded(d) /\ HasUsage(d)' = HasUsage(d)
                          /\ Metered(d)' = Metered(d)
      BY <2>1, SameFigures
    <2>3. PastPrice' = PastPrice /\ PastCount' = PastCount /\ PastPrice \subseteq Call
          /\ PastCount \subseteq Call
      BY <2>1 DEF PastPrice, PastCount, Past
    <2>4. SilentCalls' = SilentCalls /\ GarbledCalls' = GarbledCalls /\ MeteredCalls' = MeteredCalls
          /\ {d \in PastPrice : HasUsage(d)}' = {d \in PastPrice : HasUsage(d)}
      BY <2>1, <2>2, <2>3 DEF SilentCalls, GarbledCalls, MeteredCalls
    <2>5. SpendIsSeen' /\ CallsAreCounted'
      BY <2>1, <2>3, <2>4 DEF figureVars, FiguresInv, SpendIsSeen, CallsAreCounted
    <2>6. dayStamp <= today' /\ ToldOnce'
      <3>1. dayStamp \in Nat /\ today \in Nat /\ dayStamp <= today
        BY DaysFact, <1>h DEF HandlerInv, PassageTypeOK, FiguresInv, DayIsBooked
      <3> QED
        BY <2>1, <3>1 DEF FiguresInv, ToldOnce
    <2>7. DayIsBooked'
      BY <2>1, <2>3, <2>6 DEF figureVars, FiguresInv, DayIsBooked, BookedOn
    <2> QED
      BY <1>h, <2>5, <2>6, <2>7 DEF FiguresInv
  <1>3. ASSUME NEW c \in Call, receive(c) PROVE FiguresInv'
    <2>1. PICK s \in {"noted", "done"} : At(c, s) /\ step[c] = "new"
      BY <1>3 DEF receive
    <2>2. UNCHANGED figureVars /\ UNCHANGED <<today, ask>>
      BY <1>3 DEF receive, figureVars
    <2>3. ToldOnce'
      BY <1>3, <1>h, ReceiveTells DEF FiguresInv, HandlerInv
    <2>4. FiguresStand
      BY <1>3, <1>t, <2>1 DEF receive, PastPrice, Past, FiguresStand
    <2>5. step'[c] = s /\ \A d \in Call \ {c} : wire'[d] = wire[d]
      BY <1>3, <1>t, <2>1 DEF receive, At
    <2>6. wire'[c] = wire[c]
      BY <1>3 DEF receive
    <2>7. (c \in PastPrice' <=> c \in PastPrice) /\ (c \in PastCount' <=> c \in PastCount)
      BY <1>w, <2>1, <2>5, <2>6 DEF PastPrice, PastCount, Past, Sent
    <2> QED
      BY <1>h, <2>1, <2>2, <2>3, <2>4, <2>5, <2>7, QuietFigures DEF FiguresInv, Stages
  <1>4. ASSUME NEW c \in Call, refuseTenant(c) PROVE FiguresInv'
    <2>1. PICK s \in {"refusing"} : At(c, s) /\ step[c] = "noted"
      BY <1>4 DEF refuseTenant
    <2>2. UNCHANGED figureVars /\ UNCHANGED <<today, ask>>
      BY <1>4 DEF refuseTenant, figureVars
    <2>3. ToldOnce'
      BY <1>4 DEF refuseTenant, FiguresInv, ToldOnce
    <2>4. FiguresStand
      BY <1>4, <1>t, <2>1 DEF refuseTenant, PastPrice, Past, FiguresStand
    <2>5. step'[c] = s /\ \A d \in Call \ {c} : wire'[d] = wire[d]
      BY <1>4, <1>t, <2>1 DEF refuseTenant, At
    <2>6. wire'[c] = wire[c]
      BY <1>4 DEF refuseTenant
    <2>7. (c \in PastPrice' <=> c \in PastPrice) /\ (c \in PastCount' <=> c \in PastCount)
      BY <1>w, <2>1, <2>5, <2>6 DEF PastPrice, PastCount, Past, Sent
    <2> QED
      BY <1>h, <2>1, <2>2, <2>3, <2>4, <2>5, <2>7, QuietFigures DEF FiguresInv, Stages
  <1>5. ASSUME NEW c \in Call, refuseOpen(c) PROVE FiguresInv'
    <2>1. PICK s \in {"refusing"} : At(c, s) /\ step[c] = "noted"
      BY <1>5 DEF refuseOpen
    <2>2. UNCHANGED figureVars /\ UNCHANGED <<today, ask>>
      BY <1>5 DEF refuseOpen, figureVars
    <2>3. ToldOnce'
      BY <1>5 DEF refuseOpen, FiguresInv, ToldOnce
    <2>4. FiguresStand
      BY <1>5, <1>t, <2>1 DEF refuseOpen, PastPrice, Past, FiguresStand
    <2>5. step'[c] = s /\ \A d \in Call \ {c} : wire'[d] = wire[d]
      BY <1>5, <1>t, <2>1 DEF refuseOpen, At
    <2>6. wire'[c] = wire[c]
      BY <1>5 DEF refuseOpen
    <2>7. (c \in PastPrice' <=> c \in PastPrice) /\ (c \in PastCount' <=> c \in PastCount)
      BY <1>w, <2>1, <2>5, <2>6 DEF PastPrice, PastCount, Past, Sent
    <2> QED
      BY <1>h, <2>1, <2>2, <2>3, <2>4, <2>5, <2>7, QuietFigures DEF FiguresInv, Stages
  <1>6. ASSUME NEW c \in Call, NEW asProbe \in BOOLEAN, admit(c, asProbe) PROVE FiguresInv'
    <2>1. PICK s \in {"admitted"} : At(c, s) /\ step[c] = "noted"
      BY <1>6 DEF admit
    <2>2. UNCHANGED figureVars /\ UNCHANGED <<today, ask>>
      BY <1>6 DEF admit, figureVars
    <2>3. ToldOnce'
      BY <1>6 DEF admit, FiguresInv, ToldOnce
    <2>4. FiguresStand
      BY <1>6, <1>t, <2>1 DEF admit, PastPrice, Past, FiguresStand
    <2>5. step'[c] = s /\ \A d \in Call \ {c} : wire'[d] = wire[d]
      BY <1>6, <1>t, <2>1 DEF admit, At
    <2>6. wire'[c] = wire[c]
      BY <1>6 DEF admit
    <2>7. (c \in PastPrice' <=> c \in PastPrice) /\ (c \in PastCount' <=> c \in PastCount)
      BY <1>w, <2>1, <2>5, <2>6 DEF PastPrice, PastCount, Past, Sent
    <2> QED
      BY <1>h, <2>1, <2>2, <2>3, <2>4, <2>5, <2>7, QuietFigures DEF FiguresInv, Stages
  <1>7. ASSUME NEW c \in Call, turnAway(c) PROVE FiguresInv'
    <2>1. PICK s \in {"returning"} : At(c, s) /\ step[c] = "admitted"
      BY <1>7 DEF turnAway
    <2>2. UNCHANGED figureVars /\ UNCHANGED <<today, ask>>
      BY <1>7 DEF turnAway, figureVars
    <2>3. ToldOnce'
      BY <1>7 DEF turnAway, FiguresInv, ToldOnce
    <2>4. FiguresStand
      BY <1>7, <1>t, <2>1 DEF turnAway, PastPrice, Past, FiguresStand
    <2>5. step'[c] = s /\ \A d \in Call \ {c} : wire'[d] = wire[d]
      BY <1>7, <1>t, <2>1 DEF turnAway, At
    <2>6. wire'[c] = wire[c]
      BY <1>7 DEF turnAway
    <2>7. (c \in PastPrice' <=> c \in PastPrice) /\ (c \in PastCount' <=> c \in PastCount)
      BY <1>w, <2>1, <2>5, <2>6 DEF PastPrice, PastCount, Past, Sent
    <2> QED
      BY <1>h, <2>1, <2>2, <2>3, <2>4, <2>5, <2>7, QuietFigures DEF FiguresInv, Stages
  <1>8. ASSUME NEW c \in Call, NEW stored \in BOOLEAN,
               NEW guard \in {"none", "spend_cap", "error_budget", "loop", "preflight_deficit"},
               prepare(c, stored, guard)
        PROVE  FiguresInv'
    <2>1. PICK s \in {"guarded", "refusing"} : At(c, s) /\ step[c] = "admitted"
      BY <1>8 DEF prepare
    <2>2. UNCHANGED figureVars /\ UNCHANGED <<today, ask>>
      BY <1>8 DEF prepare, figureVars
    <2>3. ToldOnce'
      BY <1>8 DEF prepare, FiguresInv, ToldOnce
    <2>4. FiguresStand
      BY <1>8, <1>t, <2>1 DEF prepare, PastPrice, Past, FiguresStand
    <2>5. step'[c] = s /\ \A d \in Call \ {c} : wire'[d] = wire[d]
      BY <1>8, <1>t, <2>1 DEF prepare, At
    <2>6. wire'[c] = wire[c]
      BY <1>8 DEF prepare
    <2>7. (c \in PastPrice' <=> c \in PastPrice) /\ (c \in PastCount' <=> c \in PastCount)
      BY <1>w, <2>1, <2>5, <2>6 DEF PastPrice, PastCount, Past, Sent
    <2> QED
      BY <1>h, <2>1, <2>2, <2>3, <2>4, <2>5, <2>7, QuietFigures DEF FiguresInv, Stages
  <1>9. ASSUME NEW c \in Call, NEW applied \in BOOLEAN, enter(c, applied) PROVE FiguresInv'
    <2>1. PICK s \in {"in lane"} : At(c, s) /\ step[c] = "guarded"
      BY <1>9 DEF enter
    <2>2. UNCHANGED figureVars /\ UNCHANGED <<today, ask>>
      BY <1>9 DEF enter, figureVars
    <2>3. ToldOnce'
      BY <1>9 DEF enter, FiguresInv, ToldOnce
    <2>4. FiguresStand
      BY <1>9, <1>t, <2>1 DEF enter, PastPrice, Past, FiguresStand
    <2>5. step'[c] = s /\ \A d \in Call \ {c} : wire'[d] = wire[d]
      BY <1>9, <1>t, <2>1 DEF enter, At
    <2>6. wire'[c] = wire[c]
      BY <1>9 DEF enter
    <2>7. (c \in PastPrice' <=> c \in PastPrice) /\ (c \in PastCount' <=> c \in PastCount)
      BY <1>w, <2>1, <2>5, <2>6 DEF PastPrice, PastCount, Past, Sent
    <2> QED
      BY <1>h, <2>1, <2>2, <2>3, <2>4, <2>5, <2>7, QuietFigures DEF FiguresInv, Stages
  <1>10. ASSUME NEW c \in Call, NEW leads \in BOOLEAN, forward(c, leads) PROVE FiguresInv'
    <2>1. PICK s \in {"upstream"} : At(c, s) /\ step[c] = "in lane"
      BY <1>10 DEF forward
    <2>2. UNCHANGED figureVars /\ UNCHANGED <<today, ask>>
      BY <1>10 DEF forward, figureVars
    <2>3. ToldOnce'
      BY <1>10 DEF forward, FiguresInv, ToldOnce
    <2>4. FiguresStand
      BY <1>10, <1>t, <2>1 DEF forward, PastPrice, Past, FiguresStand
    <2>5. step'[c] = s /\ \A d \in Call \ {c} : wire'[d] = wire[d]
      BY <1>10, <1>t, <2>1 DEF forward, At
    <2>7. (c \in PastPrice' <=> c \in PastPrice) /\ (c \in PastCount' <=> c \in PastCount)
      BY <2>1, <2>5 DEF PastPrice, PastCount, Past
    <2> QED
      BY <1>h, <2>1, <2>2, <2>3, <2>4, <2>5, <2>7, QuietFigures DEF FiguresInv, Stages
  <1>11. ASSUME NEW c \in Call, NEW y \in Replies \cup {NoReply}, respond(c, y) PROVE FiguresInv'
    <2>1. PICK s \in {"replied"} : At(c, s) /\ step[c] = "upstream"
      BY <1>11 DEF respond
    <2>2. UNCHANGED figureVars /\ UNCHANGED <<today, ask>>
      BY <1>11 DEF respond, figureVars
    <2>3. ToldOnce'
      BY <1>11 DEF respond, FiguresInv, ToldOnce
    <2>4. FiguresStand
      BY <1>11, <1>t, <2>1 DEF respond, PastPrice, Past, FiguresStand
    <2>5. step'[c] = s /\ \A d \in Call \ {c} : wire'[d] = wire[d]
      BY <1>11, <1>t, <2>1 DEF respond, At
    <2>6. wire'[c] = wire[c]
      BY <1>11 DEF respond
    <2>7. (c \in PastPrice' <=> c \in PastPrice) /\ (c \in PastCount' <=> c \in PastCount)
      BY <1>w, <2>1, <2>5, <2>6 DEF PastPrice, PastCount, Past, Sent
    <2> QED
      BY <1>h, <2>1, <2>2, <2>3, <2>4, <2>5, <2>7, QuietFigures DEF FiguresInv, Stages
  <1>12. ASSUME NEW c \in Call, observeOutcome(c) PROVE FiguresInv'
    <2>1. PICK s \in {"observed"} : At(c, s) /\ step[c] = "replied"
      BY <1>12 DEF observeOutcome
    <2>2. UNCHANGED figureVars /\ UNCHANGED <<today, ask>>
      BY <1>12 DEF observeOutcome, figureVars
    <2>3. ToldOnce'
      BY <1>12 DEF observeOutcome, FiguresInv, ToldOnce
    <2>4. FiguresStand
      BY <1>12, <1>t, <2>1 DEF observeOutcome, PastPrice, Past, FiguresStand
    <2>5. step'[c] = s /\ \A d \in Call \ {c} : wire'[d] = wire[d]
      BY <1>12, <1>t, <2>1 DEF observeOutcome, At
    <2>6. wire'[c] = wire[c]
      BY <1>12 DEF observeOutcome
    <2>7. (c \in PastPrice' <=> c \in PastPrice) /\ (c \in PastCount' <=> c \in PastCount)
      BY <1>w, <2>1, <2>5, <2>6 DEF PastPrice, PastCount, Past, Sent
    <2> QED
      BY <1>h, <2>1, <2>2, <2>3, <2>4, <2>5, <2>7, QuietFigures DEF FiguresInv, Stages
  <1>13. ASSUME NEW c \in Call, leave(c) PROVE FiguresInv'
    <2>1. PICK s \in {"left"} : At(c, s) /\ step[c] = "counted"
      BY <1>13 DEF leave
    <2>2. UNCHANGED figureVars /\ UNCHANGED <<today, ask>>
      BY <1>13 DEF leave, figureVars
    <2>3. ToldOnce'
      BY <1>13 DEF leave, FiguresInv, ToldOnce
    <2>4. FiguresStand
      BY <1>13, <1>t, <2>1 DEF leave, PastPrice, Past, FiguresStand
    <2>5. step'[c] = s /\ \A d \in Call \ {c} : wire'[d] = wire[d]
      BY <1>13, <1>t, <2>1 DEF leave, At
    <2>6. wire'[c] = wire[c]
      BY <1>13 DEF leave
    <2>7. (c \in PastPrice' <=> c \in PastPrice) /\ (c \in PastCount' <=> c \in PastCount)
      BY <1>w, <2>1, <2>5, <2>6 DEF PastPrice, PastCount, Past, Sent
    <2> QED
      BY <1>h, <2>1, <2>2, <2>3, <2>4, <2>5, <2>7, QuietFigures DEF FiguresInv, Stages
  <1>14. ASSUME NEW c \in Call, file(c) PROVE FiguresInv'
    <2>1. PICK s \in {"returning"} : At(c, s) /\ step[c] = "left"
      BY <1>14 DEF file
    <2>2. UNCHANGED figureVars /\ UNCHANGED <<today, ask>>
      BY <1>14 DEF file, figureVars
    <2>3. ToldOnce'
      BY <1>14 DEF file, FiguresInv, ToldOnce
    <2>4. FiguresStand
      BY <1>14, <1>t, <2>1 DEF file, PastPrice, Past, FiguresStand
    <2>5. step'[c] = s /\ \A d \in Call \ {c} : wire'[d] = wire[d]
      BY <1>14, <1>t, <2>1 DEF file, At
    <2>6. wire'[c] = wire[c]
      BY <1>14 DEF file
    <2>7. (c \in PastPrice' <=> c \in PastPrice) /\ (c \in PastCount' <=> c \in PastCount)
      BY <1>w, <2>1, <2>5, <2>6 DEF PastPrice, PastCount, Past, Sent
    <2> QED
      BY <1>h, <2>1, <2>2, <2>3, <2>4, <2>5, <2>7, QuietFigures DEF FiguresInv, Stages
  <1>15. ASSUME NEW c \in Call, recordRefusal(c) PROVE FiguresInv'
    <2>1. PICK s \in {"refused"} : At(c, s) /\ step[c] = "refusing"
      BY <1>15 DEF recordRefusal
    <2>2. UNCHANGED figureVars /\ UNCHANGED <<today, ask>>
      BY <1>15 DEF recordRefusal, figureVars
    <2>3. ToldOnce'
      BY <1>15 DEF recordRefusal, FiguresInv, ToldOnce
    <2>4. FiguresStand
      BY <1>15, <1>t, <2>1 DEF recordRefusal, PastPrice, Past, FiguresStand
    <2>5. step'[c] = s /\ \A d \in Call \ {c} : wire'[d] = wire[d]
      BY <1>15, <1>t, <2>1 DEF recordRefusal, At
    <2>6. wire'[c] = wire[c]
      BY <1>15 DEF recordRefusal
    <2>7. (c \in PastPrice' <=> c \in PastPrice) /\ (c \in PastCount' <=> c \in PastCount)
      BY <1>w, <2>1, <2>5, <2>6 DEF PastPrice, PastCount, Past, Sent
    <2> QED
      BY <1>h, <2>1, <2>2, <2>3, <2>4, <2>5, <2>7, QuietFigures DEF FiguresInv, Stages
  <1>16. ASSUME NEW c \in Call, refuse(c) PROVE FiguresInv'
    <2>1. PICK s \in {"returning"} : At(c, s) /\ step[c] = "refused"
      BY <1>16 DEF refuse
    <2>2. UNCHANGED figureVars /\ UNCHANGED <<today, ask>>
      BY <1>16 DEF refuse, figureVars
    <2>3. ToldOnce'
      BY <1>16 DEF refuse, FiguresInv, ToldOnce
    <2>4. FiguresStand
      BY <1>16, <1>t, <2>1 DEF refuse, PastPrice, Past, FiguresStand
    <2>5. step'[c] = s /\ \A d \in Call \ {c} : wire'[d] = wire[d]
      BY <1>16, <1>t, <2>1 DEF refuse, At
    <2>6. wire'[c] = wire[c]
      BY <1>16 DEF refuse
    <2>7. (c \in PastPrice' <=> c \in PastPrice) /\ (c \in PastCount' <=> c \in PastCount)
      BY <1>w, <2>1, <2>5, <2>6 DEF PastPrice, PastCount, Past, Sent
    <2> QED
      BY <1>h, <2>1, <2>2, <2>3, <2>4, <2>5, <2>7, QuietFigures DEF FiguresInv, Stages
  <1>17. ASSUME NEW c \in Call, handBack(c) PROVE FiguresInv'
    <2>1. PICK s \in {"done"} : At(c, s) /\ step[c] = "returning"
      BY <1>17 DEF handBack
    <2>2. UNCHANGED figureVars /\ UNCHANGED <<today, ask>>
      BY <1>17 DEF handBack, figureVars
    <2>3. ToldOnce'
      BY <1>17 DEF handBack, FiguresInv, ToldOnce
    <2>4. FiguresStand
      BY <1>17, <1>t, <2>1 DEF handBack, PastPrice, Past, FiguresStand
    <2>5. step'[c] = s /\ \A d \in Call \ {c} : wire'[d] = wire[d]
      BY <1>17, <1>t, <2>1 DEF handBack, At
    <2>6. wire'[c] = wire[c]
      BY <1>17 DEF handBack
    <2>7. (c \in PastPrice' <=> c \in PastPrice) /\ (c \in PastCount' <=> c \in PastCount)
      BY <1>w, <2>1, <2>5, <2>6 DEF PastPrice, PastCount, Past, Sent
    <2> QED
      BY <1>h, <2>1, <2>2, <2>3, <2>4, <2>5, <2>7, QuietFigures DEF FiguresInv, Stages
  <1>18. ASSUME NEW c \in Call, price(c) PROVE FiguresInv'
    <2>1. ToldOnce'
      BY <1>18 DEF price, FiguresInv, ToldOnce
    <2> QED
      BY <1>h, <1>18, <2>1, PriceFigures DEF FiguresInv
  <1>19. ASSUME NEW c \in Call, count(c) PROVE FiguresInv'
    <2>1. ToldOnce'
      BY <1>19 DEF count, FiguresInv, ToldOnce
    <2> QED
      BY <1>h, <1>19, <2>1, CountFigures DEF FiguresInv
  <1> QED
    BY <1>1, <1>2, <1>3, <1>4, <1>5, <1>6, <1>7, <1>8, <1>9, <1>10, <1>11, <1>12, <1>13, <1>14,
       <1>15, <1>16, <1>17, <1>18, <1>19 DEF PassageNext

\* What the day's figure says, from what was booked.
LEMMA DayFigure == FiguresInv => Status.DayCostUSD = Cardinality({c \in Call : booked[c] = today})
  <1> SUFFICES ASSUME FiguresInv
               PROVE  Status.DayCostUSD = Cardinality({c \in Call : booked[c] = today})
    OBVIOUS
  <1>1. dayStamp \in Nat /\ today \in Nat \ {0} /\ booked \in [Call -> Nat]
    BY DaysFact DEF FiguresInv, HandlerInv, PassageTypeOK
  <1>2. CASE dayStamp = today
    BY <1>1, <1>2 DEF FiguresInv, DayIsBooked, BookedOn, Status
  <1>3. CASE dayStamp # today
    <2>1. dayStamp < today /\ \A c \in Call : booked[c] <= dayStamp
      BY <1>1, <1>3 DEF FiguresInv, DayIsBooked
    <2>2. {c \in Call : booked[c] = today} = {}
      BY <1>1, <2>1
    <2> QED
      BY <1>3, <2>2, FS_EmptySet DEF Status
  <1> QED
    BY <1>2, <1>3

LEMMA DisjointSum ==
    ASSUME NEW S \in SUBSET Call, NEW T \in SUBSET Call, S \cap T = {}
    PROVE  Cardinality(S \cup T) = Cardinality(S) + Cardinality(T)
  <1>1. IsFiniteSet(S) /\ IsFiniteSet(T) /\ Cardinality(S) \in Nat /\ Cardinality(T) \in Nat
    BY CallsAreFinite
  <1>2. Cardinality(S \cup T) = Cardinality(S) + Cardinality(T) - Cardinality(S \cap T)
    BY <1>1, FS_Union
  <1>3. Cardinality(S \cap T) = 0
    BY FS_EmptySet
  <1> QED
    BY <1>1, <1>2, <1>3

LEMMA SpendFigure ==
    FiguresInv => Cardinality({c \in PastPrice : readable(ask[c].path) /\ Succeeded(c)})
                  = Cardinality({c \in charged : Succeeded(c)}) + unused + unreadable
  <1> SUFFICES ASSUME FiguresInv
               PROVE  Cardinality({c \in PastPrice : readable(ask[c].path) /\ Succeeded(c)})
                      = Cardinality({c \in charged : Succeeded(c)}) + unused + unreadable
    OBVIOUS
  <1> DEFINE all == {c \in PastPrice : readable(ask[c].path) /\ Succeeded(c)}
             seen == {c \in charged : Succeeded(c)}
             blind == SilentCalls \cup GarbledCalls
  <1>1. charged = {c \in PastPrice : HasUsage(c)}
    BY DEF FiguresInv, SpendIsSeen
  <1>2. all = seen \cup blind /\ seen \cap blind = {} /\ SilentCalls \cap GarbledCalls = {}
    BY <1>1 DEF SilentCalls, GarbledCalls, HasUsage
  <1>3. seen \in SUBSET Call /\ SilentCalls \in SUBSET Call /\ GarbledCalls \in SUBSET Call
        /\ blind \in SUBSET Call
    BY <1>1 DEF SilentCalls, GarbledCalls, PastPrice, Past
  <1>4. Cardinality(blind) = Cardinality(SilentCalls) + Cardinality(GarbledCalls)
    BY <1>2, <1>3, DisjointSum
  <1>5. Cardinality(all) = Cardinality(seen) + Cardinality(blind)
    <2> HIDE DEF all, seen, blind
    <2> QED
      BY <1>2, <1>3, DisjointSum
  <1>6. unused = Cardinality(SilentCalls) /\ unreadable = Cardinality(GarbledCalls)
    BY DEF FiguresInv, SpendIsSeen
  <1> HIDE DEF all, seen, blind
  <1>7. Cardinality(all) = Cardinality(seen) + unused + unreadable
    BY <1>3, <1>4, <1>5, <1>6, CallsAreFinite
  <1> QED
    BY <1>7 DEF all, seen

\* For any number of requests and days: what the spend guard saw and what no cap
\* saw make up every success, what has a price and what has none make up every
\* metered request, and the day's figure is of the day it is read on.
THEOREM FiguresAlwaysAddUp == PassageSpec => []FiguresAddUp
  <1>1. PassageInit => FiguresInv
    <2> SUFFICES ASSUME PassageInit PROVE FiguresInv
      OBVIOUS
    <2>1. PastPrice = {} /\ PastCount = {}
      BY DEF PassageInit, PastPrice, PastCount, Past
    <2>2. SilentCalls = {} /\ GarbledCalls = {} /\ MeteredCalls = {}
          /\ {c \in PastPrice : HasUsage(c)} = {}
      BY <2>1 DEF SilentCalls, GarbledCalls, MeteredCalls
    <2>3. SpendIsSeen /\ CallsAreCounted
      BY <2>1, <2>2, FS_EmptySet DEF PassageInit, SpendIsSeen, CallsAreCounted
    <2>4. DayIsBooked /\ ToldOnce
      BY DEF PassageInit, DayIsBooked, ToldOnce
    <2> QED
      BY <2>3, <2>4, HandlerInit DEF FiguresInv
  <1>2. FiguresInv => FiguresAddUp
    <2> SUFFICES ASSUME FiguresInv PROVE FiguresAddUp
      OBVIOUS
    <2>1. Status.ResponsesWithoutUsage = unused /\ Status.ResponsesUnparsed = unreadable
      BY DEF Status
    <2>2. /\ Metrics.request_latency_count = latencyCount /\ Metrics.prompt_tokens = metered
          /\ Metrics.cost_usd = costUSD /\ Metrics.cost_unpriced = unpriced
      BY DEF Metrics
    <2>3. Metrics.cost_usd_day = Status.DayCostUSD /\ Metrics.cost_usd = Status.CostUSD
      BY DEF Metrics, Status
    <2> QED
      BY <2>1, <2>2, <2>3, DayFigure, SpendFigure
         DEF FiguresInv, CallsAreCounted, MeteredCalls, ToldOnce, FiguresAddUp
  <1> QED
    BY <1>1, <1>2, FiguresStep, PTL DEF PassageSpec

=============================================================================
