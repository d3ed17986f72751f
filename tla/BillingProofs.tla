--------------------------- MODULE BillingProofs ---------------------------
(***************************************************************************)
(* What is counted, and that it is counted once: the spend guard, the pool *)
(* of contributed corpora, and the reader of rollout logs.                 *)
(*                                                                         *)
(* The spend guard's books: what it remembers of a session is all that was *)
(* charged to it, a cap is passed by no more than the requests already     *)
(* admitted, and the day's total is what was recorded on the day.          *)
(*                                                                         *)
(* The invariant adds to AccountingDurable what holds of a session in      *)
(* neither table: nothing was charged to it, unless both tables are full,  *)
(* which they stay until the process ends.  Without that a session that    *)
(* was turned away could be admitted later with a zero record.             *)
(***************************************************************************)
EXTENDS SpendGuard, Pool, Rollout, FiniteSetTheorems, WellFoundedInduction, TLAPS

Entry == [life : Amount, today : Amount, order : 0..MaxRecords, day : 0..MaxDay]

\* The parts of TypeOK.
TablesTyped ==
    /\ live \in [Tenant -> SUBSET Session] /\ retired \in [Tenant -> SUBSET Session]
    /\ acct \in [Tenant -> [Session -> Entry]]
    /\ order \in 0..MaxRecords
    /\ spent \in [Tenant -> [Session -> Amount]]
DaysTyped ==
    /\ day \in 0..MaxDay /\ today \in 1..MaxDay
    /\ dayUsed \in [Tenant -> Amount]
    /\ disk \in [day : 0..MaxDay, used : [Tenant -> Amount]]
    /\ spentToday \in [Tenant -> [Session -> Amount]]
CallsTyped ==
    /\ inflight \in [Req -> {Idle} \cup [tenant : Tenant, session : Session]]
    /\ excused \subseteq Tenant \X Session
FlagsTyped == unpriceable \in BOOLEAN /\ up \in BOOLEAN /\ lost \in BOOLEAN

\* The bounds of the two tables of tenant t.
Bounds(l, r) ==
    /\ l \cap r = {}
    /\ Cardinality(l) <= MaxLive /\ Cardinality(r) <= MaxRetired
    /\ r # {} => Cardinality(l) = MaxLive

\* What a session's record is worth.
Balanced ==
    \A t \in Tenant, s \in Session :
        /\ s \in Tracked(t) => acct[t][s].life = spent[t][s]
        /\ s \notin Tracked(t) => tableFull(t) \/ spent[t][s] = Zero

Books ==
    /\ TablesTyped
    /\ \A t \in Tenant : Bounds(live[t], retired[t])
    /\ Balanced

BooksInv == Books /\ DaysTyped /\ CallsTyped /\ FlagsTyped

LEMMA BooksTyped == BooksInv => TypeOK
BY DEF BooksInv, Books, TablesTyped, DaysTyped, CallsTyped, FlagsTyped, TypeOK, Entry

-----------------------------------------------------------------------------
(* Amounts, entries and least elements. *)

LEMMA AmountFacts ==
  /\ Zero \in Amount /\ \A a, b \in Amount : Plus(a, b) \in Amount
  /\ \A a, b \in Amount, u \in Units : Plus(a, b)[u] = a[u] + b[u]
  /\ \A u \in Units : Zero[u] = 0
  /\ Costs \subseteq Amount
BY SpendAssumption DEF Zero, Amount, Plus

LEMMA EntryFacts == NeverSeen \in Entry /\ NeverSeen.life = Zero
BY AmountFacts, SpendAssumption DEF NeverSeen, Entry, NoDay

LEMMA ChargedFacts ==
  ASSUME NEW e \in Entry, NEW c \in Amount, order \in 0..MaxRecords, order < MaxRecords,
         today \in 1..MaxDay
  PROVE  Charged(e, c) \in Entry /\ Charged(e, c).life = Plus(e.life, c)
<1>1. e.life \in Amount /\ e.today \in Amount
  BY DEF Entry
<1>2. Plus(e.life, c) \in Amount
  BY <1>1, AmountFacts
<1>3. Plus(IF e.day = today THEN e.today ELSE Zero, c) \in Amount
  BY <1>1, AmountFacts
<1>4. order + 1 \in 0..MaxRecords /\ today \in 0..MaxDay
  BY SpendAssumption
<1> QED BY <1>2, <1>3, <1>4 DEF Charged, Entry

LEMMA LeastNatural ==
  ASSUME NEW T \in SUBSET Nat, T # {}
  PROVE  \E m \in T : \A n \in T : m <= n
<1>1. PICK m \in T : \A n \in T : <<n, m>> \notin OpToRel(<, Nat)
  BY WFMin, NatLessThanWellFounded, Zenon
<1>2. \A n \in T : ~ (n < m)
  <2> SUFFICES ASSUME NEW n \in T, n < m PROVE FALSE
    OBVIOUS
  <2>1. <<n, m>> \in OpToRel(<, Nat)
    BY Zenon DEF OpToRel
  <2> QED BY <1>1, <2>1
<1> QED BY <1>2

\* One that is bounded has a greatest.
LEMMA GreatestNatural ==
  ASSUME NEW T \in SUBSET Nat, T # {}, NEW b \in Nat, \A n \in T : n <= b
  PROVE  \E m \in T : \A n \in T : n <= m
<1> DEFINE D == {b - n : n \in T}
<1>1. D \in SUBSET Nat
  OBVIOUS
<1>5. D # {}
  OBVIOUS
<1>2. PICK d \in D : \A e \in D : d <= e
  BY <1>1, <1>5, LeastNatural
<1>3. PICK m \in T : d = b - m
  OBVIOUS
<1>4. \A n \in T : b - m <= b - n
  BY <1>2, <1>3
<1> QED BY <1>4

\* A table with an entry has a victim: the entry touched longest ago.
LEMMA VictimIsLive ==
  ASSUME TablesTyped, NEW t \in Tenant, live[t] # {}
  PROVE  lruVictim(t) \in live[t]
<1> DEFINE T == {acct[t][x].order : x \in live[t]}
<1>1. \A x \in live[t] : acct[t][x].order \in Nat
  BY SpendAssumption DEF TablesTyped, Entry
<1>2. PICK m \in T : \A n \in T : m <= n
  <2>1. T \in SUBSET Nat /\ T # {}
    BY <1>1
  <2> HIDE DEF T
  <2> QED BY <2>1, LeastNatural
<1>3. \E s \in live[t] : \A x \in live[t] : acct[t][s].order <= acct[t][x].order
  BY <1>2
<1> QED BY <1>3 DEF lruVictim

-----------------------------------------------------------------------------
\* admit keeps the bounds, remembers whoever it evicts and never empties a full
\* table.
LEMMA AdmitKeeps ==
  ASSUME Books, NEW t \in Tenant, NEW s \in Session, admit(t, s),
         s \in Tracked(t) \/ ~tableFull(t)
  PROVE  /\ live' \in [Tenant -> SUBSET Session] /\ retired' \in [Tenant -> SUBSET Session]
         /\ \A x \in Tenant : x # t => live'[x] = live[x] /\ retired'[x] = retired[x]
         /\ Bounds(live'[t], retired'[t])
         /\ live'[t] \cup retired'[t] = Tracked(t) \cup {s}
         /\ tableFull(t) => live'[t] = live[t] /\ retired'[t] = retired[t]
<1>1. /\ live \in [Tenant -> SUBSET Session] /\ retired \in [Tenant -> SUBSET Session]
      /\ Bounds(live[t], retired[t])
  BY DEF Books, TablesTyped
<1>2. /\ IsFiniteSet(live[t]) /\ IsFiniteSet(retired[t])
      /\ Cardinality(live[t]) \in Nat /\ Cardinality(retired[t]) \in Nat
  <2>1. live[t] \in SUBSET Session /\ retired[t] \in SUBSET Session
    BY <1>1
  <2> QED BY <2>1, SpendAssumption, FS_Subset, FS_CardinalityType
<1>3. CASE s \in Tracked(t)
  BY <1>1, <1>3 DEF admit, Tracked
<1>4. CASE s \notin Tracked(t) /\ Cardinality(live[t]) < MaxLive
  <2>1. live' = [live EXCEPT ![t] = live[t] \cup {s}] /\ retired' = retired
    BY <1>4 DEF admit
  <2>2. /\ s \notin live[t] /\ s \notin retired[t] /\ retired[t] = {}
        /\ ~tableFull(t)
    BY <1>1, <1>2, <1>4, SpendAssumption DEF Tracked, Bounds, tableFull
  <2>3. Cardinality(live[t] \cup {s}) = Cardinality(live[t]) + 1
    BY <1>2, <2>2, FS_AddElement
  <2>4. Bounds(live[t] \cup {s}, retired[t])
    BY <1>1, <1>2, <1>4, <2>2, <2>3, SpendAssumption DEF Bounds
  <2> QED BY <1>1, <2>1, <2>2, <2>4 DEF Tracked
<1>5. CASE s \notin Tracked(t) /\ ~(Cardinality(live[t]) < MaxLive)
  <2> DEFINE v == lruVictim(t)
  <2>1. /\ live' = [live EXCEPT ![t] = (live[t] \ {v}) \cup {s}]
        /\ retired' = [retired EXCEPT ![t] = retired[t] \cup {v}]
    BY <1>5 DEF admit
  <2>2. /\ s \notin live[t] /\ s \notin retired[t] /\ ~tableFull(t)
        /\ Cardinality(live[t]) = MaxLive /\ Cardinality(retired[t]) < MaxRetired
    BY <1>1, <1>2, <1>5, SpendAssumption DEF Tracked, Bounds, tableFull
  <2>3. v \in live[t] /\ v \in Session
    <3>1. live[t] # {}
      BY <2>2, SpendAssumption, FS_EmptySet
    <3> QED BY <1>1, <3>1, VictimIsLive DEF Books
  <2> HIDE DEF v
  <2>4. v \notin retired[t]
    BY <1>1, <2>3 DEF Bounds
  <2>5. Cardinality((live[t] \ {v}) \cup {s}) = MaxLive
    <3>1. IsFiniteSet(live[t] \ {v}) /\ Cardinality(live[t] \ {v}) = MaxLive - 1
      BY <1>2, <2>2, <2>3, FS_RemoveElement
    <3>2. s \notin live[t] \ {v}
      BY <2>2
    <3> HIDE DEF v
    <3> DEFINE L == live[t] \ {v}
    <3>3. Cardinality(L \cup {s}) = Cardinality(L) + 1
      <4> HIDE DEF L
      <4> QED BY <3>1, <3>2, FS_AddElement DEF L
    <3> QED BY <3>1, <3>3, SpendAssumption
  <2>6. Cardinality(retired[t] \cup {v}) = Cardinality(retired[t]) + 1
    BY <1>2, <2>4, FS_AddElement
  <2>7. Bounds((live[t] \ {v}) \cup {s}, retired[t] \cup {v})
    BY <1>1, <1>2, <2>2, <2>3, <2>5, <2>6, SpendAssumption DEF Bounds
  <2> QED BY <1>1, <2>1, <2>2, <2>3, <2>7 DEF Tracked
<1> QED BY <1>3, <1>4, <1>5

LEMMA NoTables ==
  ASSUME NEW l, NEW r, l = {}, r = {}
  PROVE  Bounds(l, r)
BY FS_EmptySet, SpendAssumption DEF Bounds

LEMMA InitBooks == Init => BooksInv
<1> SUFFICES ASSUME Init PROVE BooksInv
  OBVIOUS
<1>1. TablesTyped
  BY EntryFacts, AmountFacts, SpendAssumption DEF Init, TablesTyped, Nobody
<1>2. \A t \in Tenant : live[t] = {} /\ retired[t] = {} /\ Bounds(live[t], retired[t])
  BY NoTables DEF Init
<1>3. Balanced
  BY <1>2 DEF Init, Balanced, Tracked, Nobody
<1>4. CallsTyped /\ FlagsTyped
  BY DEF Init, CallsTyped, FlagsTyped
<1>5. NoSpend \in [Tenant -> Amount] /\ Nobody \in [Tenant -> [Session -> Amount]]
  BY AmountFacts DEF NoSpend, Nobody
<1>6. NoFile \in [day : 0..MaxDay, used : [Tenant -> Amount]]
  BY <1>5, SpendAssumption DEF NoFile, NoDay
<1>7. DaysTyped
  BY <1>5, <1>6, SpendAssumption DEF Init, DaysTyped, NoDay
<1> QED BY <1>1, <1>2, <1>3, <1>4, <1>7 DEF BooksInv, Books

LEMMA RolledTyped == DaysTyped => RolledUsed \in [Tenant -> Amount]
BY AmountFacts DEF DaysTyped, RolledUsed, NoSpend

\* A process that is gone leaves nothing but the day file.
LEMMA LostBooks ==
  ASSUME MemoryLost PROVE Books' /\ CallsTyped' /\ unpriceable' \in BOOLEAN /\ up' \in BOOLEAN
                          /\ day' \in 0..MaxDay /\ dayUsed' \in [Tenant -> Amount]
<1>1. TablesTyped'
  BY EntryFacts, AmountFacts, SpendAssumption DEF MemoryLost, TablesTyped, Nobody
<1>2. \A t \in Tenant : live'[t] = {} /\ retired'[t] = {} /\ Bounds(live'[t], retired'[t])
  BY NoTables DEF MemoryLost
<1>3. Balanced'
  BY <1>2 DEF MemoryLost, Balanced, Tracked, Nobody
<1>4. CallsTyped'
  BY DEF MemoryLost, CallsTyped
<1>5. day' \in 0..MaxDay /\ dayUsed' \in [Tenant -> Amount]
  BY AmountFacts, SpendAssumption DEF MemoryLost, NoDay, NoSpend
<1> QED BY <1>1, <1>2, <1>3, <1>4, <1>5 DEF Books, MemoryLost

LEMMA SameBooks == Books /\ UNCHANGED tableVars => Books'
BY DEF Books, tableVars, TablesTyped, Balanced, Tracked, tableFull

\* Record charges the record it finds or makes, and the day.
LEMMA RecordBooks ==
  ASSUME BooksInv, NEW r \in Req, NEW cost \in Costs, Record(r, cost)
  PROVE  BooksInv'
<1>0. PICK t \in Tenant, s \in Session : inflight[r] = [tenant |-> t, session |-> s]
  BY DEF BooksInv, CallsTyped, Record
<1>1. t \in Tenant /\ s \in Session /\ cost \in Amount /\ inflight[r].tenant = t /\ inflight[r].session = s
  BY <1>0, AmountFacts
<1> DEFINE turnedAway == s \notin Tracked(t) /\ tableFull(t)
<1>2. /\ up /\ order < MaxRecords
      /\ IF turnedAway THEN UNCHANGED <<live, retired, acct, order>>
         ELSE /\ admit(t, s)
              /\ acct' = [acct EXCEPT ![t][s] =
                           Charged(IF s \in Tracked(t) THEN @ ELSE NeverSeen, cost)]
              /\ order' = order + 1
      /\ spent' = [spent EXCEPT ![t][s] = Plus(@, cost)]
  BY <1>1 DEF Record
<1>3. /\ day' = today /\ dayUsed' = [RolledUsed EXCEPT ![t] = Plus(@, cost)]
      /\ spentToday' = [spentToday EXCEPT ![t][s] = Plus(@, cost)]
      /\ unpriceable' \in BOOLEAN
      /\ inflight' = [inflight EXCEPT ![r] = Idle]
      /\ UNCHANGED <<today, disk, up, lost, excused>>
  BY <1>1 DEF Record, DayCharge, worldVars, BooksInv, FlagsTyped
<1>4. DaysTyped'
  <2>1. /\ RolledUsed \in [Tenant -> Amount] /\ spentToday \in [Tenant -> [Session -> Amount]]
        /\ today \in 1..MaxDay /\ disk \in [day : 0..MaxDay, used : [Tenant -> Amount]]
    BY RolledTyped DEF BooksInv, DaysTyped
  <2>2. dayUsed' \in [Tenant -> Amount] /\ day' \in 0..MaxDay
    BY <1>1, <1>3, <2>1, AmountFacts, SpendAssumption
  <2>3. spentToday' \in [Tenant -> [Session -> Amount]]
    BY <1>1, <1>3, <2>1, AmountFacts
  <2> QED BY <1>3, <2>1, <2>2, <2>3 DEF DaysTyped
<1>5. CallsTyped' /\ FlagsTyped'
  BY <1>3 DEF BooksInv, CallsTyped, FlagsTyped
<1>6. /\ acct \in [Tenant -> [Session -> Entry]] /\ spent \in [Tenant -> [Session -> Amount]]
      /\ order \in 0..MaxRecords /\ today \in 1..MaxDay
  BY DEF BooksInv, Books, TablesTyped, DaysTyped
<1>7. /\ spent' \in [Tenant -> [Session -> Amount]]
      /\ spent'[t][s] = Plus(spent[t][s], cost)
      /\ \A x \in Tenant, y \in Session : x # t \/ y # s => spent'[x][y] = spent[x][y]
  BY <1>1, <1>2, <1>6, AmountFacts
<1>8. CASE turnedAway
  <2>1. UNCHANGED <<live, retired, acct, order>>
    BY <1>2, <1>8
  <2>2. TablesTyped'
    BY <1>7, <2>1 DEF BooksInv, Books, TablesTyped
  <2>3. Balanced'
    <3> SUFFICES ASSUME NEW x \in Tenant, NEW y \in Session
                 PROVE  /\ y \in Tracked(x) => acct[x][y].life = spent'[x][y]
                        /\ y \notin Tracked(x) => tableFull(x) \/ spent'[x][y] = Zero
      BY <2>1 DEF Balanced, Tracked, tableFull
    <3>1. CASE x = t /\ y = s
      BY <1>8, <3>1
    <3>2. CASE x # t \/ y # s
      BY <1>7, <3>2 DEF BooksInv, Books, Balanced
    <3> QED BY <3>1, <3>2
  <2> QED BY <1>4, <1>5, <2>1, <2>2, <2>3 DEF BooksInv, Books
<1>9. CASE ~turnedAway
  <2> DEFINE e == IF s \in Tracked(t) THEN acct[t][s] ELSE NeverSeen
  <2>1. admit(t, s) /\ acct' = [acct EXCEPT ![t][s] = Charged(e, cost)] /\ order' = order + 1
    BY <1>2, <1>9
  <2>2. e \in Entry
    BY <1>1, <1>6, EntryFacts
  <2>3. Charged(e, cost) \in Entry /\ Charged(e, cost).life = Plus(e.life, cost)
    <3> HIDE DEF e
    <3> QED BY <1>1, <1>2, <1>6, <2>2, ChargedFacts
  <2> HIDE DEF e
  <2>4. /\ acct' \in [Tenant -> [Session -> Entry]] /\ acct'[t][s] = Charged(e, cost)
        /\ \A x \in Tenant, y \in Session : x # t \/ y # s => acct'[x][y] = acct[x][y]
    BY <1>1, <1>6, <2>1, <2>3
  <2>5. /\ live' \in [Tenant -> SUBSET Session] /\ retired' \in [Tenant -> SUBSET Session]
        /\ \A x \in Tenant : x # t => live'[x] = live[x] /\ retired'[x] = retired[x]
        /\ Bounds(live'[t], retired'[t])
        /\ live'[t] \cup retired'[t] = Tracked(t) \cup {s}
        /\ tableFull(t) => live'[t] = live[t] /\ retired'[t] = retired[t]
    BY <1>1, <1>9, <2>1, AdmitKeeps DEF BooksInv
  <2>6. TablesTyped'
    BY <1>2, <1>6, <1>7, <2>1, <2>4, <2>5, SpendAssumption DEF TablesTyped
  <2>7. \A x \in Tenant : Bounds(live'[x], retired'[x])
    BY <2>5 DEF BooksInv, Books
  <2>8. /\ Tracked(t)' = Tracked(t) \cup {s} /\ (tableFull(t) => tableFull(t)')
        /\ \A x \in Tenant : x # t => Tracked(x)' = Tracked(x) /\ tableFull(x)' = tableFull(x)
    BY <2>5 DEF Tracked, tableFull
  <2>9. Balanced'
    <3> SUFFICES ASSUME NEW x \in Tenant, NEW y \in Session
                 PROVE  /\ y \in Tracked(x)' => acct'[x][y].life = spent'[x][y]
                        /\ y \notin Tracked(x)' => tableFull(x)' \/ spent'[x][y] = Zero
      BY DEF Balanced
    <3>1. /\ y \in Tracked(x) => acct[x][y].life = spent[x][y]
          /\ y \notin Tracked(x) => tableFull(x) \/ spent[x][y] = Zero
      BY DEF BooksInv, Books, Balanced
    <3>2. CASE x = t /\ y = s
      <4>1. e.life = spent[t][s]
        BY <1>9, <3>1, <3>2, EntryFacts DEF e
      <4> QED BY <1>7, <2>3, <2>4, <2>8, <3>2, <4>1
    <3>3. CASE x = t /\ y # s
      BY <1>7, <2>4, <2>8, <3>1, <3>3
    <3>4. CASE x # t
      BY <1>7, <2>4, <2>8, <3>1, <3>4
    <3> QED BY <3>2, <3>3, <3>4
  <2> QED BY <1>4, <1>5, <2>6, <2>7, <2>9 DEF BooksInv, Books
<1> QED BY <1>8, <1>9

LEMMA BooksStep == BooksInv /\ [Next]_vars => BooksInv'
<1> SUFFICES ASSUME BooksInv, [Next]_vars PROVE BooksInv'
  OBVIOUS
<1>0. Books /\ DaysTyped /\ CallsTyped /\ FlagsTyped /\ RolledUsed \in [Tenant -> Amount]
  BY RolledTyped DEF BooksInv
<1>1. ASSUME NEW t \in Tenant, NEW s \in Session, CheckRefuses(t, s) PROVE BooksInv'
  <2>1. /\ day' = today /\ dayUsed' = RolledUsed
        /\ UNCHANGED <<tableVars, unpriceable, worldVars, inflight, spentToday, excused>>
    BY <1>1 DEF CheckRefuses, rollDay
  <2> QED BY <1>0, <2>1, SameBooks, SpendAssumption
          DEF BooksInv, DaysTyped, CallsTyped, FlagsTyped, worldVars
<1>2. ASSUME NEW t \in Tenant, NEW s \in Session, NEW r \in Req, NEW o \in MayOverride,
             CheckPasses(r, t, s, o)
      PROVE  BooksInv'
  <2>1. /\ (day' = today /\ dayUsed' = RolledUsed) \/ UNCHANGED <<day, dayUsed>>
        /\ inflight' = [inflight EXCEPT ![r] = [tenant |-> t, session |-> s]]
        /\ excused' = excused \/ excused' = excused \cup {<<t, s>>}
        /\ UNCHANGED <<tableVars, unpriceable, worldVars, spentToday>>
    BY <1>2 DEF CheckPasses, rollDay
  <2>2. DaysTyped'
    BY <1>0, <2>1, SpendAssumption DEF DaysTyped, worldVars
  <2>3. CallsTyped'
    BY <1>0, <2>1 DEF CallsTyped
  <2> QED BY <1>0, <2>1, <2>2, <2>3, SameBooks DEF BooksInv, FlagsTyped, worldVars
<1>3. ASSUME NEW r \in Req, NothingToRecord(r) PROVE BooksInv'
  BY <1>0, <1>3, SameBooks DEF NothingToRecord, BooksInv, DaysTyped, CallsTyped, FlagsTyped, worldVars
<1>4. ASSUME NEW r \in Req, NEW cost \in Costs, Record(r, cost) PROVE BooksInv'
  BY <1>4, RecordBooks
<1>5. CASE Stop
  <2>1. disk' \in [day : 0..MaxDay, used : [Tenant -> Amount]]
    BY <1>0, <1>5, SpendAssumption DEF Stop, SaveState, DaysTyped
  <2>2. MemoryLost /\ UNCHANGED <<today, spentToday, lost>>
    BY <1>5 DEF Stop
  <2> QED BY <1>0, <2>1, <2>2, LostBooks DEF BooksInv, DaysTyped, FlagsTyped
<1>6. CASE Crash
  <2>1. MemoryLost /\ lost' = TRUE /\ UNCHANGED <<today, disk, spentToday>>
    BY <1>6 DEF Crash
  <2> QED BY <1>0, <2>1, LostBooks DEF BooksInv, DaysTyped, FlagsTyped
<1>7. CASE Start
  <2>1. /\ up' = TRUE /\ UNCHANGED <<tableVars, unpriceable, today, disk, inflight, spentToday, excused, lost>>
        /\ (day' = disk.day /\ dayUsed' = disk.used) \/ UNCHANGED <<day, dayUsed>>
    BY <1>7 DEF Start, LoadState
  <2>2. disk.day \in 0..MaxDay /\ disk.used \in [Tenant -> Amount]
    BY <1>0 DEF DaysTyped
  <2> QED BY <1>0, <2>1, <2>2, SameBooks DEF BooksInv, DaysTyped, CallsTyped, FlagsTyped
<1>8. CASE Midnight
  <2>1. /\ today < MaxDay /\ today' = today + 1 /\ spentToday' = Nobody /\ lost' = FALSE
        /\ UNCHANGED <<tableVars, day, dayUsed, unpriceable, disk, up, inflight, excused>>
    BY <1>8 DEF Midnight
  <2>2. spentToday' \in [Tenant -> [Session -> Amount]]
    BY <2>1, AmountFacts DEF Nobody
  <2>3. today' \in 1..MaxDay
    BY <1>0, <2>1, SpendAssumption DEF DaysTyped
  <2> QED BY <1>0, <2>1, <2>2, <2>3, SameBooks DEF BooksInv, DaysTyped, CallsTyped, FlagsTyped
<1>9. CASE UNCHANGED vars
  BY <1>0, <1>9, SameBooks DEF vars, tableVars, BooksInv, DaysTyped, CallsTyped, FlagsTyped
<1> QED BY <1>1, <1>2, <1>3, <1>4, <1>5, <1>6, <1>7, <1>8, <1>9 DEF Next

\* SP-8 for any number of tenants, sessions and handlers and tables of any size:
\* what lookupSpend reports for a session with a slot is all that was charged to
\* it, and the two tables keep their bounds (Record, admit).
THEOREM NoChargeIsForgotten == Spec => []AccountingDurable
<1>1. BooksInv => AccountingDurable
  <2> SUFFICES ASSUME BooksInv PROVE AccountingDurable
    OBVIOUS
  <2>1. \A t \in Tenant : \A s \in Tracked(t) : s \in Session
    BY DEF BooksInv, Books, TablesTyped, Tracked
  <2>2. \A t \in Tenant : \A s \in Tracked(t) : acct[t][s].life = spent[t][s]
    BY <2>1 DEF BooksInv, Books, Balanced
  <2>3. TablesSound
    BY BooksTyped DEF TablesSound, BooksInv, Books, Bounds
  <2> QED BY <2>2, <2>3 DEF AccountingDurable
<1> QED BY <1>1, InitBooks, BooksStep, PTL DEF Spec

-----------------------------------------------------------------------------
(* How far past its cap a session can go. *)

dearest(u) == Max({c[u] : c \in Costs})
Calls(t, s) == {r \in Req : inflight[r] = [tenant |-> t, session |-> s]}

\* What is charged and what may still be charged by n open calls.
Within(l, n, u) ==
    l + n * dearest(u) <= SessionCap[u] - 1 + Cardinality(Req) * dearest(u)

Capped ==
    \A t \in Tenant, s \in Session, u \in Units :
        SessionCap[u] > 0 => <<t, s>> \in excused
                             \/ Within(lookupSpend(t, s)[u], Cardinality(Calls(t, s)), u)

LEMMA DearestFacts ==
  ASSUME NEW u \in Units
  PROVE  dearest(u) \in Nat /\ \A c \in Costs : c[u] <= dearest(u)
<1> DEFINE T == {c[u] : c \in Costs}
<1>1. T \in SUBSET Nat /\ T # {} /\ \A n \in T : n <= MaxDaySpend
  BY SpendAssumption
<1>2. PICK m \in T : \A n \in T : n <= m
  <2> HIDE DEF T
  <2> QED BY <1>1, GreatestNatural, SpendAssumption
<1>3. \E x \in T : \A y \in T : x >= y
  BY <1>1, <1>2
<1>4. Max(T) \in T /\ \A y \in T : Max(T) >= y
  BY <1>3 DEF Max
<1> QED BY <1>1, <1>4 DEF dearest

LEMMA Products ==
  ASSUME NEW a \in Nat, NEW b \in Nat, NEW d \in Nat
  PROVE  /\ a * d \in Nat /\ (a + 1) * d = a * d + d
         /\ a <= b => a * d <= b * d
<1>1. a * d \in Nat /\ (a + 1) * d = a * d + d
  OBVIOUS
<1>2. a <= b => a * d <= b * d
  OBVIOUS
<1> QED BY <1>1, <1>2

LEMMA CallsFinite ==
  ASSUME NEW t, NEW s
  PROVE  /\ IsFiniteSet(Calls(t, s)) /\ Cardinality(Calls(t, s)) \in Nat
         /\ Cardinality(Req) \in Nat /\ Cardinality(Calls(t, s)) <= Cardinality(Req)
<1>1. Calls(t, s) \in SUBSET Req
  BY DEF Calls
<1> QED BY <1>1, SpendAssumption, FS_Subset, FS_CardinalityType

\* A smaller charge with fewer calls open, or with one call the less.
LEMMA WithinLess ==
  ASSUME NEW u \in Units, NEW l \in Nat, NEW n \in Nat, NEW k \in Nat, NEW m \in Nat,
         Within(l, n, u)
  PROVE  /\ k <= l /\ m <= n => Within(k, m, u)
         /\ n = m + 1 /\ k <= l + dearest(u) => Within(k, m, u)
<1>1. dearest(u) \in Nat /\ Cardinality(Req) \in Nat /\ SessionCap[u] \in Nat
  BY DearestFacts, SpendAssumption, FS_CardinalityType
<1>2. n * dearest(u) \in Nat /\ m * dearest(u) \in Nat /\ Cardinality(Req) * dearest(u) \in Nat
  BY <1>1, Products
<1>3. m <= n => m * dearest(u) <= n * dearest(u)
  BY <1>1, Products
<1>4. n = m + 1 => n * dearest(u) = m * dearest(u) + dearest(u)
  BY <1>1, Products
<1> DEFINE x == n * dearest(u)
           y == m * dearest(u)
           z == Cardinality(Req) * dearest(u)
<1>5. x \in Nat /\ y \in Nat /\ z \in Nat /\ (m <= n => y <= x) /\ (n = m + 1 => x = y + dearest(u))
      /\ l + x <= SessionCap[u] - 1 + z
  BY <1>2, <1>3, <1>4 DEF Within
<1>6. Within(k, m, u) <=> k + y <= SessionCap[u] - 1 + z
  BY DEF Within
<1> HIDE DEF x, y, z
<1> QED BY <1>1, <1>5, <1>6

\* A session under its cap has room for every call there is.
LEMMA WithinCap ==
  ASSUME NEW u \in Units, NEW l \in Nat, l < SessionCap[u], NEW n \in Nat, n <= Cardinality(Req)
  PROVE  Within(l, n, u)
<1>1. dearest(u) \in Nat /\ Cardinality(Req) \in Nat /\ SessionCap[u] \in Nat
  BY DearestFacts, SpendAssumption, FS_CardinalityType
<1> DEFINE y == n * dearest(u)
           z == Cardinality(Req) * dearest(u)
<1>2. y \in Nat /\ z \in Nat /\ y <= z
  BY <1>1, Products
<1>3. Within(l, n, u) <=> l + y <= SessionCap[u] - 1 + z
  BY DEF Within
<1> HIDE DEF y, z
<1> QED BY <1>1, <1>2, <1>3

LEMMA LookupTyped ==
  ASSUME Books, NEW t \in Tenant, NEW s \in Session
  PROVE  lookupSpend(t, s) \in Amount /\ \A u \in Units : lookupSpend(t, s)[u] \in Nat
<1>1. lookupSpend(t, s) \in Amount
  BY AmountFacts DEF Books, TablesTyped, Entry, lookupSpend
<1> QED BY <1>1 DEF Amount

\* A step that charges nobody and opens no call.
LEMMA CappedFrame ==
  ASSUME Books, Books', Capped, excused \subseteq excused',
         \A t \in Tenant, s \in Session :
             lookupSpend(t, s)' = lookupSpend(t, s) /\ Calls(t, s)' \subseteq Calls(t, s)
  PROVE  Capped'
<1> SUFFICES ASSUME NEW t \in Tenant, NEW s \in Session, NEW u \in Units, SessionCap[u] > 0,
                    <<t, s>> \notin excused'
             PROVE  Within(lookupSpend(t, s)'[u], Cardinality(Calls(t, s)'), u)
  BY DEF Capped, Within, dearest
<1>1. Within(lookupSpend(t, s)[u], Cardinality(Calls(t, s)), u)
  BY DEF Capped
<1>2. /\ lookupSpend(t, s)'[u] = lookupSpend(t, s)[u] /\ lookupSpend(t, s)[u] \in Nat
      /\ Calls(t, s)' \in SUBSET Calls(t, s)
  BY LookupTyped
<1>3. /\ IsFiniteSet(Calls(t, s)) /\ Cardinality(Calls(t, s)) \in Nat
      /\ Cardinality(Calls(t, s)') <= Cardinality(Calls(t, s)) /\ Cardinality(Calls(t, s)') \in Nat
  BY <1>2, CallsFinite, FS_Subset, FS_CardinalityType
<1> QED BY <1>1, <1>2, <1>3, WithinLess

\* Record charges one session, at most what the dearest response costs, and
\* closes one of its calls.
LEMMA CappedRecord ==
  ASSUME BooksInv, BooksInv', Capped, NEW r \in Req, NEW cost \in Costs, Record(r, cost)
  PROVE  Capped'
<1>0. PICK t \in Tenant, s \in Session : inflight[r] = [tenant |-> t, session |-> s]
  BY DEF BooksInv, CallsTyped, Record
<1>1. cost \in Amount /\ inflight[r].tenant = t /\ inflight[r].session = s /\ Books /\ Books'
  BY <1>0, AmountFacts DEF BooksInv
<1>2. /\ IF s \notin Tracked(t) /\ tableFull(t) THEN UNCHANGED <<live, retired, acct, order>>
         ELSE /\ admit(t, s)
              /\ acct' = [acct EXCEPT ![t][s] =
                           Charged(IF s \in Tracked(t) THEN @ ELSE NeverSeen, cost)]
      /\ order < MaxRecords /\ inflight' = [inflight EXCEPT ![r] = Idle] /\ excused' = excused
  BY <1>1 DEF Record
<1>3. /\ acct \in [Tenant -> [Session -> Entry]] /\ order \in 0..MaxRecords /\ today \in 1..MaxDay
      /\ inflight \in [Req -> {Idle} \cup [tenant : Tenant, session : Session]]
  BY DEF BooksInv, Books, TablesTyped, DaysTyped, CallsTyped
<1>4. /\ lookupSpend(t, s)' = lookupSpend(t, s) \/ lookupSpend(t, s)' = Plus(lookupSpend(t, s), cost)
      /\ \A x \in Tenant, y \in Session : x # t \/ y # s => lookupSpend(x, y)' = lookupSpend(x, y)
  <2>1. CASE s \notin Tracked(t) /\ tableFull(t)
    BY <1>2, <2>1 DEF lookupSpend, Tracked
  <2>2. CASE ~(s \notin Tracked(t) /\ tableFull(t))
    <3> DEFINE e == IF s \in Tracked(t) THEN acct[t][s] ELSE NeverSeen
    <3>1. e \in Entry /\ e.life = lookupSpend(t, s)
      BY <1>3, EntryFacts DEF lookupSpend
    <3>2. admit(t, s) /\ acct' = [acct EXCEPT ![t][s] = Charged(e, cost)]
      BY <1>2, <2>2
    <3> HIDE DEF e
    <3>3. Charged(e, cost).life = Plus(e.life, cost)
      BY <1>1, <1>2, <1>3, <3>1, ChargedFacts
    <3>4. /\ acct'[t][s] = Charged(e, cost)
          /\ \A x \in Tenant, y \in Session : x # t \/ y # s => acct'[x][y] = acct[x][y]
      BY <1>3, <3>2
    <3>5. /\ \A x \in Tenant : x # t => Tracked(x)' = Tracked(x)
          /\ Tracked(t)' = Tracked(t) \cup {s}
      BY <1>1, <2>2, <3>2, AdmitKeeps DEF Tracked
    <3>6. lookupSpend(t, s)' = Plus(lookupSpend(t, s), cost)
      BY <3>1, <3>3, <3>4, <3>5 DEF lookupSpend
    <3>7. ASSUME NEW x \in Tenant, NEW y \in Session, x # t \/ y # s
          PROVE  lookupSpend(x, y)' = lookupSpend(x, y)
      <4>1. acct'[x][y] = acct[x][y] /\ (y \in Tracked(x)' <=> y \in Tracked(x))
        BY <3>4, <3>5, <3>7
      <4> QED BY <4>1 DEF lookupSpend
    <3> QED BY <3>6, <3>7
  <2> QED BY <2>1, <2>2
<1>5. \A x \in Tenant, y \in Session : Idle # [tenant |-> x, session |-> y]
  BY SpendAssumption DEF Idle
<1>6. /\ r \in Calls(t, s) /\ Calls(t, s)' = Calls(t, s) \ {r}
      /\ \A x \in Tenant, y \in Session : x # t \/ y # s => Calls(x, y)' = Calls(x, y)
  <2>1. /\ inflight'[r] = Idle /\ \A q \in Req : q # r => inflight'[q] = inflight[q]
    BY <1>2, <1>3
  <2>2. r \in Calls(t, s) /\ Calls(t, s)' = Calls(t, s) \ {r}
    BY <1>0, <1>5, <2>1 DEF Calls
  <2>3. ASSUME NEW x \in Tenant, NEW y \in Session, x # t \/ y # s PROVE Calls(x, y)' = Calls(x, y)
    <3>1. [tenant |-> t, session |-> s] # [tenant |-> x, session |-> y]
      BY <2>3
    <3> QED BY <1>0, <1>5, <2>1, <3>1 DEF Calls
  <2> QED BY <2>2, <2>3
<1> SUFFICES ASSUME NEW x \in Tenant, NEW y \in Session, NEW u \in Units, SessionCap[u] > 0,
                    <<x, y>> \notin excused'
             PROVE  Within(lookupSpend(x, y)'[u], Cardinality(Calls(x, y)'), u)
  BY DEF Capped, Within, dearest
<1>7. Within(lookupSpend(x, y)[u], Cardinality(Calls(x, y)), u)
  BY <1>2 DEF Capped
<1>8. CASE x # t \/ y # s
  <2>1. lookupSpend(x, y)' = lookupSpend(x, y) /\ Calls(x, y)' = Calls(x, y)
    BY <1>4, <1>6, <1>8
  <2> QED BY <1>7, <2>1
<1>9. CASE x = t /\ y = s
  <2>1. /\ Cardinality(Calls(t, s)) = Cardinality(Calls(t, s)') + 1
        /\ Cardinality(Calls(t, s)') \in Nat /\ Cardinality(Calls(t, s)) \in Nat
    <3>1. IsFiniteSet(Calls(t, s)) /\ Cardinality(Calls(t, s)) \in Nat
      BY CallsFinite
    <3>2. IsFiniteSet(Calls(t, s) \ {r}) /\ Cardinality(Calls(t, s) \ {r}) = Cardinality(Calls(t, s)) - 1
      BY <1>6, <3>1, FS_RemoveElement
    <3>3. Cardinality(Calls(t, s) \ {r}) \in Nat
      BY <3>2, FS_CardinalityType
    <3> QED BY <1>6, <3>1, <3>2, <3>3
  <2>2. /\ lookupSpend(t, s)[u] \in Nat /\ lookupSpend(t, s) \in Amount
        /\ cost[u] <= dearest(u) /\ dearest(u) \in Nat /\ cost[u] \in Nat
    BY <1>1, LookupTyped, DearestFacts DEF Amount
  <2>3. /\ lookupSpend(t, s)'[u] <= lookupSpend(t, s)[u] + dearest(u)
        /\ lookupSpend(t, s)'[u] \in Nat
    <3>1. CASE lookupSpend(t, s)' = lookupSpend(t, s)
      BY <2>2, <3>1
    <3>2. CASE lookupSpend(t, s)' = Plus(lookupSpend(t, s), cost)
      <4>1. Plus(lookupSpend(t, s), cost)[u] = lookupSpend(t, s)[u] + cost[u]
        BY <1>1, <2>2, AmountFacts
      <4>2. lookupSpend(t, s)'[u] = lookupSpend(t, s)[u] + cost[u]
        BY <3>2, <4>1
      <4> QED BY <2>2, <4>2
    <3> QED BY <1>4, <3>1, <3>2
  <2> QED BY <1>7, <1>9, <2>1, <2>2, <2>3, WithinLess
<1> QED BY <1>8, <1>9

\* Check opens one call of a session that is under its cap, or is let past it.
LEMMA CappedCheck ==
  ASSUME BooksInv, Capped, NEW r \in Req, NEW t \in Tenant, NEW s \in Session,
         NEW o \in MayOverride, CheckPasses(r, t, s, o)
  PROVE  Capped'
<1>1. /\ inflight[r] = Idle /\ inflight' = [inflight EXCEPT ![r] = [tenant |-> t, session |-> s]]
      /\ excused' = IF Verdict(t, s) = "ok" THEN excused ELSE excused \cup {<<t, s>>}
      /\ UNCHANGED <<live, retired, acct>>
  BY DEF CheckPasses, tableVars
<1>2. \A x \in Tenant, y \in Session : lookupSpend(x, y)' = lookupSpend(x, y)
  BY <1>1 DEF lookupSpend, Tracked
<1>3. inflight \in [Req -> {Idle} \cup [tenant : Tenant, session : Session]]
  BY DEF BooksInv, CallsTyped
<1>4. \A x \in Tenant, y \in Session : x # t \/ y # s => Calls(x, y)' \subseteq Calls(x, y)
  <2> SUFFICES ASSUME NEW x \in Tenant, NEW y \in Session, x # t \/ y # s
               PROVE  Calls(x, y)' \subseteq Calls(x, y)
    OBVIOUS
  <2>1. [tenant |-> t, session |-> s] # [tenant |-> x, session |-> y]
    OBVIOUS
  <2> QED BY <1>1, <1>3, <2>1 DEF Calls
<1> SUFFICES ASSUME NEW x \in Tenant, NEW y \in Session, NEW u \in Units, SessionCap[u] > 0,
                    <<x, y>> \notin excused'
             PROVE  Within(lookupSpend(x, y)'[u], Cardinality(Calls(x, y)'), u)
  BY DEF Capped, Within, dearest
<1>5. <<x, y>> \notin excused
  BY <1>1
<1>6. /\ lookupSpend(x, y)'[u] = lookupSpend(x, y)[u] /\ lookupSpend(x, y)[u] \in Nat
      /\ IsFiniteSet(Calls(x, y)) /\ Cardinality(Calls(x, y)) \in Nat /\ Cardinality(Req) \in Nat
  BY <1>2, LookupTyped, CallsFinite DEF BooksInv
<1>7. CASE x = t /\ y = s
  <2>1. Verdict(t, s) = "ok" /\ Enabled
    BY <1>1, <1>7 DEF Enabled
  <2>2. ~ (lookupSpend(t, s)[u] >= SessionCap[u])
    BY <2>1 DEF Verdict
  <2>3. Calls(x, y)' \in SUBSET Req
    BY DEF Calls
  <2>4. Cardinality(Calls(x, y)') \in Nat /\ Cardinality(Calls(x, y)') <= Cardinality(Req)
    BY <2>3, SpendAssumption, FS_Subset, FS_CardinalityType
  <2>5. SessionCap[u] \in Nat
    BY SpendAssumption
  <2> QED BY <1>6, <1>7, <2>2, <2>4, <2>5, WithinCap
<1>8. CASE x # t \/ y # s
  <2>1. Within(lookupSpend(x, y)[u], Cardinality(Calls(x, y)), u)
    BY <1>5 DEF Capped
  <2>2. Calls(x, y)' \in SUBSET Calls(x, y)
    BY <1>4, <1>8
  <2>3. Cardinality(Calls(x, y)') \in Nat /\ Cardinality(Calls(x, y)') <= Cardinality(Calls(x, y))
    BY <1>6, <2>2, FS_Subset, FS_CardinalityType
  <2> QED BY <1>6, <2>1, <2>3, WithinLess
<1> QED BY <1>7, <1>8

\* A process without sessions and calls.
LEMMA CappedEmpty ==
  ASSUME \A t \in Tenant : live[t] = {} /\ retired[t] = {}, \A r \in Req : inflight[r] = Idle
  PROVE  Capped
<1> SUFFICES ASSUME NEW t \in Tenant, NEW s \in Session, NEW u \in Units, SessionCap[u] > 0
             PROVE  Within(lookupSpend(t, s)[u], Cardinality(Calls(t, s)), u)
  BY DEF Capped
<1>1. lookupSpend(t, s)[u] = 0
  BY AmountFacts DEF lookupSpend, Tracked
<1>2. Idle # [tenant |-> t, session |-> s]
  BY SpendAssumption DEF Idle
<1>3. Calls(t, s) = {}
  BY <1>2 DEF Calls
<1>4. Cardinality(Calls(t, s)) = 0 /\ Cardinality(Req) \in Nat
  BY <1>3, FS_EmptySet, FS_CardinalityType, SpendAssumption
<1> QED BY <1>1, <1>4, WithinCap

LEMMA CappedStep == BooksInv /\ Capped /\ [Next]_vars => Capped'
<1> SUFFICES ASSUME BooksInv, Capped, [Next]_vars PROVE Capped'
  OBVIOUS
<1>0. BooksInv' /\ Books /\ Books'
  <2>1. BooksInv'
    BY BooksStep
  <2> QED BY <2>1 DEF BooksInv
<1>1. ASSUME UNCHANGED <<live, retired, acct, excused>>,
             \A t \in Tenant, s \in Session : Calls(t, s)' \subseteq Calls(t, s)
      PROVE  Capped'
  <2>1. \A t \in Tenant, s \in Session : lookupSpend(t, s)' = lookupSpend(t, s)
    BY <1>1 DEF lookupSpend, Tracked
  <2> QED BY <1>0, <1>1, <2>1, CappedFrame
<1>2. ASSUME NEW t \in Tenant, NEW s \in Session, CheckRefuses(t, s) PROVE Capped'
  BY <1>1, <1>2 DEF CheckRefuses, tableVars, Calls
<1>3. ASSUME NEW t \in Tenant, NEW s \in Session, NEW r \in Req, NEW o \in MayOverride,
             CheckPasses(r, t, s, o)
      PROVE  Capped'
  BY <1>3, CappedCheck
<1>4. ASSUME NEW r \in Req, NothingToRecord(r) PROVE Capped'
  <2>1. /\ inflight' = [inflight EXCEPT ![r] = Idle] /\ UNCHANGED <<live, retired, acct, excused>>
        /\ inflight \in [Req -> {Idle} \cup [tenant : Tenant, session : Session]]
    BY <1>4 DEF NothingToRecord, tableVars, BooksInv, CallsTyped
  <2>2. \A t \in Tenant, s \in Session : Idle # [tenant |-> t, session |-> s]
    BY SpendAssumption DEF Idle
  <2>3. \A t \in Tenant, s \in Session : Calls(t, s)' \subseteq Calls(t, s)
    BY <2>1, <2>2 DEF Calls
  <2> QED BY <1>1, <2>1, <2>3
<1>5. ASSUME NEW r \in Req, NEW cost \in Costs, Record(r, cost) PROVE Capped'
  BY <1>0, <1>5, CappedRecord
<1>6. CASE Stop \/ Crash
  <2>1. MemoryLost
    BY <1>6 DEF Stop, Crash
  <2>2. /\ \A t \in Tenant : live'[t] = {} /\ retired'[t] = {}
        /\ \A r \in Req : inflight'[r] = Idle
    BY <2>1 DEF MemoryLost
  <2> SUFFICES ASSUME NEW t \in Tenant, NEW s \in Session, NEW u \in Units, SessionCap[u] > 0
               PROVE  Within(lookupSpend(t, s)'[u], Cardinality(Calls(t, s)'), u)
    BY DEF Capped, Within, dearest
  <2>3. lookupSpend(t, s)'[u] = 0
    <3>1. lookupSpend(t, s)' = Zero
      BY <2>2 DEF lookupSpend, Tracked
    <3> QED BY <3>1, AmountFacts
  <2>4. Idle # [tenant |-> t, session |-> s]
    BY SpendAssumption DEF Idle
  <2>5. Calls(t, s)' = {}
    BY <2>2, <2>4 DEF Calls
  <2>6. Cardinality(Calls(t, s)') = 0 /\ Cardinality(Req) \in Nat
    BY <2>5, FS_EmptySet, FS_CardinalityType, SpendAssumption
  <2> QED BY <2>3, <2>6, WithinCap
<1>7. CASE Start \/ Midnight \/ UNCHANGED vars
  <2>1. UNCHANGED <<live, retired, acct, excused, inflight>>
    BY <1>7 DEF Start, Midnight, vars, tableVars
  <2> QED BY <1>1, <2>1 DEF Calls
<1> QED BY <1>2, <1>3, <1>4, <1>5, <1>6, <1>7 DEF Next

\* For any caps, costs and number of handlers, a session goes past its cap by no
\* more than the dearest response for each request that was already let through,
\* unless the client asked for it to proceed (Check and Record are two critical
\* sections).
THEOREM OvershootIsBounded == Spec => []OvershootBounded
<1>1. Init => Capped
  <2> SUFFICES ASSUME Init PROVE Capped
    OBVIOUS
  <2>1. /\ \A t \in Tenant : live[t] = {} /\ retired[t] = {}
        /\ \A r \in Req : inflight[r] = Idle
    BY DEF Init
  <2> QED BY <2>1, CappedEmpty
<1>2. Capped => OvershootBounded
  BY DEF Capped, OvershootBounded, Within, Calls, dearest
<1> QED BY <1>1, <1>2, InitBooks, BooksStep, CappedStep, PTL DEF Spec

-----------------------------------------------------------------------------
(* Sums over a finite set. *)

Pick(s) == CHOOSE x \in s : TRUE
IsSum(f, S, g) ==
    g = [s \in SUBSET S |-> IF s = {} THEN 0 ELSE f[Pick(s)] + g[s \ {Pick(s)}]]
SumOf(f, S) == CHOOSE g : IsSum(f, S, g)

\* A set of finite sets has a member of least cardinality.
LEMMA SmallestSet ==
  ASSUME NEW Q, Q # {}, \A s \in Q : IsFiniteSet(s)
  PROVE  \E s \in Q : \A r \in Q : Cardinality(s) <= Cardinality(r)
<1> DEFINE T == {Cardinality(s) : s \in Q}
<1>1. T \in SUBSET Nat /\ T # {}
  BY FS_CardinalityType
<1>2. PICK m \in T : \A n \in T : m <= n
  <2> HIDE DEF T
  <2> QED BY <1>1, LeastNatural
<1> QED BY <1>2

LEMMA LessWithout ==
  ASSUME NEW S, IsFiniteSet(S), NEW x \in S
  PROVE  IsFiniteSet(S \ {x}) /\ Cardinality(S \ {x}) = Cardinality(S) - 1 /\ Cardinality(S) \in Nat
         /\ ~(Cardinality(S) <= Cardinality(S \ {x}))
<1>1. IsFiniteSet(S \ {x}) /\ Cardinality(S \ {x}) = Cardinality(S) - 1 /\ Cardinality(S) \in Nat
  BY FS_RemoveElement, FS_CardinalityType
<1> QED BY <1>1

LEMMA SumsAgree ==
  ASSUME NEW f, NEW S, IsFiniteSet(S), NEW T \in SUBSET S, NEW g, NEW h,
         IsSum(f, S, g), IsSum(f, T, h)
  PROVE  \A s \in SUBSET T : g[s] = h[s]
<1> DEFINE Bad == {s \in SUBSET T : g[s] # h[s]}
<1> SUFFICES ASSUME Bad # {} PROVE FALSE
  OBVIOUS
<1>0. \A s \in Bad : IsFiniteSet(s)
  BY FS_Subset
<1>1. PICK s \in Bad : \A r \in Bad : Cardinality(s) <= Cardinality(r)
  <2> HIDE DEF Bad
  <2> QED BY <1>0, SmallestSet
<1>2. /\ g[s] = IF s = {} THEN 0 ELSE f[Pick(s)] + g[s \ {Pick(s)}]
      /\ h[s] = IF s = {} THEN 0 ELSE f[Pick(s)] + h[s \ {Pick(s)}]
  <2>1. s \in SUBSET S /\ s \in SUBSET T
    OBVIOUS
  <2> QED BY <2>1 DEF IsSum
<1>3. s # {}
  BY <1>2
<1>4. Pick(s) \in s
  BY <1>3 DEF Pick
<1>5. s \ {Pick(s)} \in SUBSET T /\ s \ {Pick(s)} \notin Bad
  BY <1>0, <1>1, <1>4, LessWithout
<1> QED BY <1>2, <1>5

LEMMA SumExists ==
  ASSUME NEW f, NEW S, IsFiniteSet(S)
  PROVE  \E g : IsSum(f, S, g)
<1> DEFINE Bad == {T \in SUBSET S : ~ \E g : IsSum(f, T, g)}
<1>1. CASE Bad = {}
  BY <1>1
<1>2. CASE Bad # {}
  <2>1. \A T \in Bad : IsFiniteSet(T)
    BY FS_Subset
  <2>2. PICK T \in Bad : \A r \in Bad : Cardinality(T) <= Cardinality(r)
    <3> HIDE DEF Bad
    <3> QED BY <1>2, <2>1, SmallestSet
  <2>3. ASSUME NEW s \in SUBSET T, s # T PROVE IsFiniteSet(s) /\ IsSum(f, s, SumOf(f, s))
    <3>1. IsFiniteSet(T) /\ s \in SUBSET S
      BY <2>1
    <3>2. IsFiniteSet(s) /\ Cardinality(s) < Cardinality(T) /\ Cardinality(s) \in Nat
          /\ Cardinality(T) \in Nat
      BY <2>3, <3>1, FS_Subset, FS_CardinalityType
    <3>3. ~(Cardinality(T) <= Cardinality(s))
      BY <3>2
    <3>4. \E g : IsSum(f, s, g)
      BY <2>2, <3>1, <3>3
    <3> QED BY <3>2, <3>4, Zenon DEF SumOf
  <2> DEFINE rest(s) == s \ {Pick(s)}
             G == [s \in SUBSET T |->
                     IF s = {} THEN 0 ELSE f[Pick(s)] + SumOf(f, rest(s))[rest(s)]]
  <2>4. ASSUME NEW s \in SUBSET T, s # {}
        PROVE  G[rest(s)] = SumOf(f, rest(s))[rest(s)]
    <3> DEFINE r == rest(s)
    <3>1. Pick(s) \in s
      BY <2>4 DEF Pick
    <3>2. r \in SUBSET T /\ r # T
      BY <3>1
    <3>3. IsFiniteSet(r) /\ IsSum(f, r, SumOf(f, r))
      <4> HIDE DEF r
      <4> QED BY <2>3, <3>2
    <3>4. SumOf(f, r)[r] = IF r = {} THEN 0 ELSE f[Pick(r)] + SumOf(f, r)[rest(r)]
      <4> HIDE DEF r
      <4>1. r \in SUBSET r
        OBVIOUS
      <4> QED BY <3>3, <4>1 DEF IsSum
    <3>5. G[r] = IF r = {} THEN 0 ELSE f[Pick(r)] + SumOf(f, rest(r))[rest(r)]
      <4> HIDE DEF r
      <4> QED BY <3>2
    <3>6. ASSUME r # {} PROVE SumOf(f, r)[rest(r)] = SumOf(f, rest(r))[rest(r)]
      <4> HIDE DEF r
      <4> DEFINE q == rest(r)
      <4>1. Pick(r) \in r
        BY <3>6 DEF Pick
      <4>2. q \in SUBSET T /\ q # T /\ q \in SUBSET r /\ q \in SUBSET q
        BY <3>2, <4>1
      <4> HIDE DEF q
      <4>3. IsSum(f, q, SumOf(f, q))
        BY <2>3, <4>2
      <4>4. SumOf(f, r)[q] = SumOf(f, q)[q]
        BY <3>3, <4>2, <4>3, SumsAgree
      <4> QED BY <4>4 DEF q
    <3> HIDE DEF r, G
    <3>7. G[r] = SumOf(f, r)[r]
      BY <3>4, <3>5, <3>6
    <3> QED BY <3>7 DEF r
  <2>5. \A s \in SUBSET T : G[s] = IF s = {} THEN 0 ELSE f[Pick(s)] + G[rest(s)]
    <3>1. ASSUME NEW s \in SUBSET T PROVE G[s] = IF s = {} THEN 0 ELSE f[Pick(s)] + G[rest(s)]
      <4>1. CASE s = {}
        BY <4>1
      <4>2. CASE s # {}
        <5>1. G[s] = f[Pick(s)] + SumOf(f, rest(s))[rest(s)]
          BY <4>2
        <5> HIDE DEF G
        <5> QED BY <2>4, <4>2, <5>1
      <4> QED BY <4>1, <4>2
    <3> QED BY <3>1
  <2>6. IsSum(f, T, G)
    <3>1. G = [s \in SUBSET T |-> G[s]]
      OBVIOUS
    <3> HIDE DEF G
    <3> QED BY <2>5, <3>1 DEF IsSum
  <2> QED BY <2>6
<1> QED BY <1>1, <1>2

\* The sum of none is zero, and of some is that of one of them and of the rest.
LEMMA SumIs ==
  ASSUME NEW f, NEW S, IsFiniteSet(S)
  PROVE  SumFunctionOnSet(f, S) = IF S = {} THEN 0 ELSE f[Pick(S)] + SumFunctionOnSet(f, S \ {Pick(S)})
<1>1. ASSUME NEW T PROVE SumFunctionOnSet(f, T) = SumOf(f, T)[T]
  BY DEF SumFunctionOnSet, FoldFunctionOnSet, MapThenFoldSet, IsSum, Pick, SumOf
<1>2. IsSum(f, S, SumOf(f, S))
  BY SumExists, Zenon DEF SumOf
<1>3. SumOf(f, S)[S] = IF S = {} THEN 0 ELSE f[Pick(S)] + SumOf(f, S)[S \ {Pick(S)}]
  <2>1. S \in SUBSET S
    OBVIOUS
  <2> QED BY <1>2, <2>1 DEF IsSum
<1>4. ASSUME S # {} PROVE SumOf(f, S)[S \ {Pick(S)}] = SumOf(f, S \ {Pick(S)})[S \ {Pick(S)}]
  <2> DEFINE r == S \ {Pick(S)}
  <2>1. r \in SUBSET S /\ r \in SUBSET r /\ IsFiniteSet(r)
    BY FS_Subset
  <2> HIDE DEF r
  <2>2. IsSum(f, r, SumOf(f, r))
    BY <2>1, SumExists, Zenon DEF SumOf
  <2>3. SumOf(f, S)[r] = SumOf(f, r)[r]
    BY <1>2, <2>1, <2>2, SumsAgree
  <2> QED BY <2>3 DEF r
<1> QED BY <1>1, <1>3, <1>4

LEMMA SumType ==
  ASSUME NEW S, IsFiniteSet(S), NEW f \in [S -> Nat], NEW T \in SUBSET S
  PROVE  IsFiniteSet(T) /\ SumFunctionOnSet(f, T) \in Nat
<1> DEFINE Bad == {s \in SUBSET S : SumFunctionOnSet(f, s) \notin Nat}
<1>1. \A s \in SUBSET S : IsFiniteSet(s)
  BY FS_Subset
<1>2. Bad = {}
  <2> SUFFICES ASSUME Bad # {} PROVE FALSE
    OBVIOUS
  <2>1. PICK s \in Bad : \A r \in Bad : Cardinality(s) <= Cardinality(r)
    <3>1. \A s \in Bad : IsFiniteSet(s)
      BY <1>1
    <3> HIDE DEF Bad
    <3> QED BY <3>1, SmallestSet
  <2>2. IsFiniteSet(s)
    BY <1>1
  <2>3. SumFunctionOnSet(f, s) = IF s = {} THEN 0 ELSE f[Pick(s)] + SumFunctionOnSet(f, s \ {Pick(s)})
    BY <2>2, SumIs
  <2>4. s # {}
    BY <2>3
  <2>5. Pick(s) \in s /\ f[Pick(s)] \in Nat
    <3>1. Pick(s) \in s
      BY <2>4 DEF Pick
    <3> QED BY <3>1
  <2>6. s \ {Pick(s)} \in SUBSET S /\ s \ {Pick(s)} \notin Bad
    BY <2>1, <2>2, <2>5, LessWithout
  <2> QED BY <2>3, <2>4, <2>5, <2>6
<1> QED BY <1>1, <1>2

\* Any member may be taken out first.
LEMMA SumRemove ==
  ASSUME NEW S, IsFiniteSet(S), NEW f \in [S -> Nat], NEW T \in SUBSET S, NEW x \in T
  PROVE  SumFunctionOnSet(f, T) = f[x] + SumFunctionOnSet(f, T \ {x})
<1> DEFINE Bad == {s \in SUBSET S :
                     \E y \in s : SumFunctionOnSet(f, s) # f[y] + SumFunctionOnSet(f, s \ {y})}
<1>1. \A s \in SUBSET S : IsFiniteSet(s) /\ SumFunctionOnSet(f, s) \in Nat
  BY SumType
<1>2. Bad = {}
  <2> SUFFICES ASSUME Bad # {} PROVE FALSE
    OBVIOUS
  <2>1. PICK s \in Bad : \A r \in Bad : Cardinality(s) <= Cardinality(r)
    <3>1. \A s \in Bad : IsFiniteSet(s)
      BY <1>1
    <3> HIDE DEF Bad
    <3> QED BY <3>1, SmallestSet
  <2>2. PICK y \in s : SumFunctionOnSet(f, s) # f[y] + SumFunctionOnSet(f, s \ {y})
    OBVIOUS
  <2> DEFINE p == Pick(s)
  <2>3. p \in s
    BY <2>2 DEF Pick
  <2>4. IsFiniteSet(s) /\ s \in SUBSET S /\ f[p] \in Nat /\ f[y] \in Nat
    BY <1>1, <2>2, <2>3
  <2>5. SumFunctionOnSet(f, s) = f[p] + SumFunctionOnSet(f, s \ {p})
    BY <2>2, <2>4, SumIs
  <2> HIDE DEF p
  <2>6. p # y
    BY <2>2, <2>5
  <2>7. /\ s \ {p} \in SUBSET S /\ s \ {p} \notin Bad
        /\ s \ {y} \in SUBSET S /\ s \ {y} \notin Bad
    BY <2>1, <2>2, <2>3, <2>4, LessWithout
  <2>8. /\ SumFunctionOnSet(f, s \ {p}) = f[y] + SumFunctionOnSet(f, (s \ {p}) \ {y})
        /\ SumFunctionOnSet(f, s \ {y}) = f[p] + SumFunctionOnSet(f, (s \ {y}) \ {p})
    BY <2>2, <2>3, <2>6, <2>7
  <2>9. (s \ {p}) \ {y} = (s \ {y}) \ {p} /\ (s \ {p}) \ {y} \in SUBSET S
    BY <2>4
  <2>10. SumFunctionOnSet(f, (s \ {p}) \ {y}) \in Nat
    BY <1>1, <2>9
  <2>11. SumFunctionOnSet(f, s) = f[y] + SumFunctionOnSet(f, s \ {y})
    <3> DEFINE a == SumFunctionOnSet(f, (s \ {p}) \ {y})
    <3>1. /\ SumFunctionOnSet(f, s) = f[p] + (f[y] + a)
          /\ SumFunctionOnSet(f, s \ {y}) = f[p] + a /\ a \in Nat
      BY <2>5, <2>8, <2>9, <2>10
    <3> HIDE DEF a
    <3> QED BY <2>4, <3>1
  <2> QED BY <2>2, <2>11
<1> QED BY <1>2

\* A sum over fewer, each no larger, is no larger.
LEMMA SumMonotone ==
  ASSUME NEW S, IsFiniteSet(S), NEW f \in [S -> Nat], NEW g \in [S -> Nat],
         NEW U \in SUBSET S, NEW T \in SUBSET U, \A x \in T : f[x] <= g[x]
  PROVE  SumFunctionOnSet(f, T) <= SumFunctionOnSet(g, U)
<1> DEFINE Bad == {s \in SUBSET U : ~(SumFunctionOnSet(f, s \cap T) <= SumFunctionOnSet(g, s))}
<1>1. \A s \in SUBSET S :
         IsFiniteSet(s) /\ SumFunctionOnSet(f, s) \in Nat /\ SumFunctionOnSet(g, s) \in Nat
  BY SumType
<1>2. Bad = {}
  <2> SUFFICES ASSUME Bad # {} PROVE FALSE
    OBVIOUS
  <2>1. PICK s \in Bad : \A r \in Bad : Cardinality(s) <= Cardinality(r)
    <3>1. \A s \in Bad : IsFiniteSet(s)
      BY <1>1
    <3> HIDE DEF Bad
    <3> QED BY <3>1, SmallestSet
  <2>2. IsFiniteSet(s) /\ s \in SUBSET S /\ s \cap T \in SUBSET S /\ s \in SUBSET U
    BY <1>1
  <2>3. s # {}
    <3>1. SumFunctionOnSet(f, {}) = 0
      BY FS_EmptySet, SumIs
    <3>2. s = {} => s \cap T = {} /\ SumFunctionOnSet(g, s) \in Nat
      BY <1>1, <2>2
    <3> QED BY <3>1, <3>2
  <2>4. PICK y : y \in s
    BY <2>3
  <2> DEFINE r == s \ {y}
  <2>5. r \in SUBSET U /\ r \notin Bad
    BY <2>1, <2>2, <2>4, LessWithout
  <2>6. SumFunctionOnSet(f, r \cap T) <= SumFunctionOnSet(g, r)
    BY <2>5
  <2>7. SumFunctionOnSet(g, s) = g[y] + SumFunctionOnSet(g, r)
    BY <2>2, <2>4, SumRemove
  <2>8. f[y] \in Nat /\ g[y] \in Nat /\ r \cap T \in SUBSET S /\ r \in SUBSET S
    BY <2>2, <2>4
  <2>9. SumFunctionOnSet(f, r \cap T) \in Nat /\ SumFunctionOnSet(g, r) \in Nat
    BY <1>1, <2>8
  <2>10. CASE y \in T
    <3>1. SumFunctionOnSet(f, s \cap T) = f[y] + SumFunctionOnSet(f, (s \cap T) \ {y})
      BY <2>2, <2>4, <2>10, SumRemove
    <3>2. (s \cap T) \ {y} = r \cap T /\ f[y] <= g[y]
      BY <2>10
    <3> HIDE DEF r
    <3> QED BY <2>6, <2>7, <2>8, <2>9, <3>1, <3>2
  <2>11. CASE y \notin T
    <3>1. SumFunctionOnSet(f, s \cap T) = SumFunctionOnSet(f, r \cap T)
      <4>1. s \cap T = r \cap T
        BY <2>11
      <4> QED BY <4>1
    <3> HIDE DEF r
    <3> QED BY <2>6, <2>7, <2>8, <2>9, <3>1
  <2> QED BY <2>10, <2>11
<1>3. U \in SUBSET U /\ U \cap T = T
  OBVIOUS
<1> QED BY <1>2, <1>3

\* Sums of equal amounts are equal.
LEMMA SumSame ==
  ASSUME NEW S, IsFiniteSet(S), NEW f \in [S -> Nat], NEW g \in [S -> Nat],
         NEW T \in SUBSET S, \A x \in T : f[x] = g[x]
  PROVE  SumFunctionOnSet(f, T) = SumFunctionOnSet(g, T)
<1>1. /\ SumFunctionOnSet(f, T) <= SumFunctionOnSet(g, T)
      /\ SumFunctionOnSet(g, T) <= SumFunctionOnSet(f, T)
  <2>1. \A x \in T : f[x] <= g[x] /\ g[x] <= f[x]
    OBVIOUS
  <2>2. T \in SUBSET T
    OBVIOUS
  <2> QED BY <2>1, <2>2, SumMonotone
<1> QED BY <1>1, SumType

\* What is added to one of the amounts is added to the sum.
LEMMA SumAdd ==
  ASSUME NEW S, IsFiniteSet(S), NEW f \in [S -> Nat], NEW g \in [S -> Nat],
         NEW x \in S, NEW n \in Nat, g[x] = f[x] + n, \A y \in S : y # x => g[y] = f[y]
  PROVE  SumFunctionOnSet(g, S) = SumFunctionOnSet(f, S) + n
<1>1. S \in SUBSET S /\ S \ {x} \in SUBSET S
  OBVIOUS
<1>2. /\ SumFunctionOnSet(f, S) = f[x] + SumFunctionOnSet(f, S \ {x})
      /\ SumFunctionOnSet(g, S) = g[x] + SumFunctionOnSet(g, S \ {x})
  BY <1>1, SumRemove
<1>3. SumFunctionOnSet(f, S \ {x}) = SumFunctionOnSet(g, S \ {x}) /\ SumFunctionOnSet(f, S \ {x}) \in Nat
  BY <1>1, SumSame, SumType
<1> QED BY <1>2, <1>3

LEMMA SumOfNone ==
  ASSUME NEW S, IsFiniteSet(S), NEW f \in [S -> Nat], \A x \in S : f[x] = 0
  PROVE  SumFunctionOnSet(f, S) = 0
<1>1. {} \in SUBSET S /\ S \in SUBSET S
  OBVIOUS
<1>2. SumFunctionOnSet(f, {}) = 0
  BY FS_EmptySet, SumIs
<1> DEFINE Bad == {s \in SUBSET S : SumFunctionOnSet(f, s) # 0}
<1>3. Bad = {}
  <2> SUFFICES ASSUME Bad # {} PROVE FALSE
    OBVIOUS
  <2>1. \A s \in Bad : IsFiniteSet(s)
    BY FS_Subset
  <2>2. PICK s \in Bad : \A r \in Bad : Cardinality(s) <= Cardinality(r)
    <3> HIDE DEF Bad
    <3> QED BY <2>1, SmallestSet
  <2>3. s # {}
    BY <1>2
  <2>4. PICK y : y \in s
    BY <2>3
  <2>5. s \in SUBSET S /\ f[y] = 0
    BY <2>4
  <2>6. SumFunctionOnSet(f, s) = f[y] + SumFunctionOnSet(f, s \ {y})
    BY <2>4, <2>5, SumRemove
  <2>7. s \ {y} \in SUBSET S /\ s \ {y} \notin Bad
    BY <2>1, <2>2, <2>4, LessWithout
  <2> QED BY <2>5, <2>6, <2>7
<1> QED BY <1>1, <1>3

\* If the smaller amounts of fewer add up to all of it, they are equal, and the
\* others are nothing.
LEMMA SumIsAll ==
  ASSUME NEW S, IsFiniteSet(S), NEW f \in [S -> Nat], NEW g \in [S -> Nat],
         NEW T \in SUBSET S, \A x \in T : f[x] <= g[x],
         SumFunctionOnSet(g, S) <= SumFunctionOnSet(f, T)
  PROVE  \A x \in S : IF x \in T THEN f[x] = g[x] ELSE g[x] = 0
<1> SUFFICES ASSUME NEW x \in S PROVE IF x \in T THEN f[x] = g[x] ELSE g[x] = 0
  OBVIOUS
<1>1. S \in SUBSET S /\ S \ {x} \in SUBSET S /\ T \ {x} \in SUBSET (S \ {x})
      /\ T \ {x} \in SUBSET S
  OBVIOUS
<1>2. SumFunctionOnSet(g, S) = g[x] + SumFunctionOnSet(g, S \ {x})
  BY <1>1, SumRemove
<1>3. SumFunctionOnSet(f, T \ {x}) <= SumFunctionOnSet(g, S \ {x})
  BY <1>1, SumMonotone
<1>4. /\ SumFunctionOnSet(f, T \ {x}) \in Nat /\ SumFunctionOnSet(g, S \ {x}) \in Nat
      /\ SumFunctionOnSet(f, T) \in Nat
      /\ f[x] \in Nat /\ g[x] \in Nat
  BY <1>1, SumType
<1>5. CASE x \in T
  <2>1. SumFunctionOnSet(f, T) = f[x] + SumFunctionOnSet(f, T \ {x})
    BY <1>5, SumRemove
  <2>2. f[x] <= g[x]
    BY <1>5
  <2> QED BY <1>2, <1>3, <1>4, <1>5, <2>1, <2>2
<1>6. CASE x \notin T
  <2>1. SumFunctionOnSet(f, T) = SumFunctionOnSet(f, T \ {x})
    <3>1. T = T \ {x}
      BY <1>6
    <3> QED BY <3>1
  <2> QED BY <1>2, <1>3, <1>4, <1>6, <2>1
<1> QED BY <1>5, <1>6

-----------------------------------------------------------------------------
(* The day's total. *)

\* Nothing is dated later than today, and a guard that has seen no day has seen
\* no charge; a process that is gone has left nothing but the file.
DatesHold ==
    /\ day <= today /\ disk.day <= today
    /\ \A t \in Tenant, s \in Session : acct[t][s].day <= today
    /\ day = NoDay => dayUsed = NoSpend
    /\ ~up => day = NoDay

\* A session's share of the day is of this life of the process alone.
SharesAreLow ==
    \A t \in Tenant, s \in Session, u \in Units :
        acct[t][s].day = today => acct[t][s].today[u] <= spentToday[t][s][u]

TotalsAreLow ==
    \A t \in Tenant, u \in Units :
        /\ day = today => dayUsed[t][u] <= SpentToday(t, u)
        /\ disk.day = today => disk.used[t][u] <= SpentToday(t, u)

\* The total is with the process or, between two of them, in the file.
TotalsAreTrue ==
    ~lost => \A t \in Tenant, u \in Units :
        /\ up => RolledUsed[t][u] = SpentToday(t, u)
        /\ ~up => SpentToday(t, u) = IF disk.day = today THEN disk.used[t][u] ELSE 0

DayInv == DatesHold /\ SharesAreLow /\ TotalsAreLow /\ TotalsAreTrue

LEMMA SpentTyped ==
  ASSUME DaysTyped, NEW t \in Tenant, NEW u \in Units
  PROVE  /\ [s \in Session |-> spentToday[t][s][u]] \in [Session -> Nat]
         /\ SpentToday(t, u) \in Nat
<1>1. [s \in Session |-> spentToday[t][s][u]] \in [Session -> Nat]
  BY DEF DaysTyped, Amount
<1>2. Session \in SUBSET Session /\ IsFiniteSet(Session)
  BY SpendAssumption
<1> DEFINE f == [s \in Session |-> spentToday[t][s][u]]
<1>3. SumFunctionOnSet(f, Session) \in Nat
  <2> HIDE DEF f
  <2> QED BY <1>1, <1>2, SumType DEF f
<1> QED BY <1>1, <1>3 DEF SpentToday

\* A new day starts from nothing.
LEMMA NothingSpent ==
  ASSUME spentToday = Nobody, NEW t \in Tenant, NEW u \in Units
  PROVE  SpentToday(t, u) = 0
<1> DEFINE f == [s \in Session |-> spentToday[t][s][u]]
<1>1. f \in [Session -> Nat] /\ \A s \in Session : f[s] = 0
  BY DEF Nobody, Zero
<1>2. SumFunctionOnSet(f, Session) = 0
  <2> HIDE DEF f
  <2> QED BY <1>1, SpendAssumption, SumOfNone
<1> QED BY <1>2 DEF SpentToday

LEMMA ZeroSpend == \A t \in Tenant, u \in Units : NoSpend[t][u] = 0
  BY DEF NoSpend, Zero

LEMMA DayTypes ==
  ASSUME DaysTyped
  PROVE  /\ day \in Nat /\ today \in Nat /\ today # NoDay /\ disk.day \in Nat
         /\ \A t \in Tenant, u \in Units : dayUsed[t][u] \in Nat /\ disk.used[t][u] \in Nat
  BY SpendAssumption DEF DaysTyped, Amount, NoDay

LEMMA InitDay == Init => DayInv
<1> SUFFICES ASSUME Init PROVE DayInv
  OBVIOUS
<1>1. /\ day = NoDay /\ today = 1 /\ disk.day = NoDay /\ up /\ dayUsed = NoSpend
      /\ \A t \in Tenant, s \in Session : acct[t][s].day = NoDay
  BY DEF Init, NoFile, NeverSeen
<1>2. \A t \in Tenant, u \in Units : SpentToday(t, u) = 0
  BY NothingSpent DEF Init
<1> QED BY <1>1, <1>2, ZeroSpend DEF DayInv, DatesHold, SharesAreLow, TotalsAreLow,
        TotalsAreTrue, RolledUsed, NoDay

\* A call that records nothing rolls the day at most.
LEMMA DayRolls ==
  ASSUME DaysTyped, DayInv, up, UNCHANGED <<acct, today, disk, up, lost, spentToday>>,
         UNCHANGED <<day, dayUsed>> \/ (day' = today /\ dayUsed' = RolledUsed)
  PROVE  DayInv'
<1>1. \A t \in Tenant, u \in Units : SpentToday(t, u)' = SpentToday(t, u)
  BY DEF SpentToday
<1>2. RolledUsed' = RolledUsed
  BY DEF RolledUsed
<1>3. DatesHold'
  BY DayTypes DEF DayInv, DatesHold
<1>4. SharesAreLow'
  BY DEF DayInv, SharesAreLow
<1>5. TotalsAreLow'
  <2>1. ASSUME NEW t \in Tenant, NEW u \in Units
        PROVE  RolledUsed[t][u] <= SpentToday(t, u)
    BY SpentTyped, ZeroSpend DEF DayInv, TotalsAreLow, RolledUsed
  <2> QED BY <1>1, <2>1 DEF DayInv, TotalsAreLow
<1>6. TotalsAreTrue'
  BY <1>1, <1>2 DEF DayInv, TotalsAreTrue
<1> QED BY <1>3, <1>4, <1>5, <1>6 DEF DayInv

\* Record adds to the tenant's total what it adds to the session's spend.
LEMMA DayRecord ==
  ASSUME BooksInv, DayInv, NEW r \in Req, NEW cost \in Costs, Record(r, cost)
  PROVE  DayInv'
<1>0. PICK t \in Tenant, s \in Session : inflight[r] = [tenant |-> t, session |-> s]
  BY DEF BooksInv, CallsTyped, Record
<1>1. inflight[r].tenant = t /\ inflight[r].session = s /\ cost \in Amount
      /\ \A u \in Units : cost[u] \in Nat
  BY <1>0, AmountFacts DEF Amount
<1> DEFINE e == IF s \in Tracked(t) THEN acct[t][s] ELSE NeverSeen
<1>2. /\ up /\ day' = today /\ dayUsed' = [RolledUsed EXCEPT ![t] = Plus(@, cost)]
      /\ spentToday' = [spentToday EXCEPT ![t][s] = Plus(@, cost)]
      /\ acct' = acct \/ acct' = [acct EXCEPT ![t][s] = Charged(e, cost)]
      /\ UNCHANGED <<today, disk, up, lost>>
  BY <1>1 DEF Record, DayCharge, worldVars
<1>3. DaysTyped /\ acct \in [Tenant -> [Session -> Entry]]
      /\ RolledUsed \in [Tenant -> Amount] /\ spentToday \in [Tenant -> [Session -> Amount]]
  BY RolledTyped DEF BooksInv, Books, TablesTyped, DaysTyped
<1>4. /\ spentToday'[t][s] = Plus(spentToday[t][s], cost)
      /\ \A x \in Tenant, y \in Session : x # t \/ y # s => spentToday'[x][y] = spentToday[x][y]
      /\ \A x \in Tenant : x # t => spentToday'[x] = spentToday[x]
      /\ spentToday' \in [Tenant -> [Session -> Amount]]
  BY <1>1, <1>2, <1>3, AmountFacts
<1>5. \A u \in Units : spentToday'[t][s][u] = spentToday[t][s][u] + cost[u]
  BY <1>4 DEF Plus
<1>6. ASSUME NEW x \in Tenant, NEW u \in Units
      PROVE  SpentToday(x, u)' = SpentToday(x, u) + (IF x = t THEN cost[u] ELSE 0)
  <2> DEFINE f == [y \in Session |-> spentToday[x][y][u]]
             g == [y \in Session |-> spentToday'[x][y][u]]
  <2>1. /\ SpentToday(x, u) = SumFunctionOnSet(f, Session)
        /\ SpentToday(x, u)' = SumFunctionOnSet(g, Session)
    BY DEF SpentToday
  <2>2. f \in [Session -> Nat] /\ g \in [Session -> Nat]
    BY <1>3, <1>4 DEF Amount
  <2>3. CASE x = t
    <3>1. g[s] = f[s] + cost[u] /\ \A y \in Session : y # s => g[y] = f[y]
      BY <1>4, <1>5, <2>3
    <3> HIDE DEF f, g
    <3>2. SumFunctionOnSet(g, Session) = SumFunctionOnSet(f, Session) + cost[u]
      BY <1>1, <2>2, <3>1, SpendAssumption, SumAdd
    <3> QED BY <2>1, <2>3, <3>2
  <2>4. CASE x # t
    <3>1. f = g
      BY <1>4, <2>4
    <3>2. SpentToday(x, u) \in Nat
      BY <1>3, SpentTyped
    <3> HIDE DEF f, g
    <3> QED BY <2>1, <2>4, <3>1, <3>2
  <2> QED BY <2>3, <2>4
<1>7. ASSUME NEW x \in Tenant, NEW u \in Units
      PROVE  dayUsed'[x][u] = RolledUsed[x][u] + (IF x = t THEN cost[u] ELSE 0)
  <2>1. RolledUsed[x][u] \in Nat
    BY <1>3 DEF Amount
  <2>2. CASE x = t
    <3>1. dayUsed'[t] = Plus(RolledUsed[t], cost)
      BY <1>2, <1>3
    <3> QED BY <2>2, <3>1 DEF Plus
  <2>3. CASE x # t
    <3>1. dayUsed'[x] = RolledUsed[x]
      BY <1>2, <1>3, <2>3
    <3> QED BY <2>1, <2>3, <3>1
  <2> QED BY <2>2, <2>3
<1>8. DatesHold'
  <2>1. Charged(e, cost).day = today
    BY DEF Charged
  <2>2. \A x \in Tenant, y \in Session : acct'[x][y].day <= today
    <3>1. \A x \in Tenant, y \in Session : acct[x][y].day <= today
      BY DEF DayInv, DatesHold
    <3>2. today <= today
      BY <1>3, DayTypes
    <3> DEFINE c == Charged(e, cost)
    <3>3. c.day <= today
      BY <2>1, <3>2
    <3>4. acct' = acct \/ acct' = [acct EXCEPT ![t][s] = c]
      BY <1>2
    <3> HIDE DEF c
    <3>5. ASSUME NEW x \in Tenant, NEW y \in Session
          PROVE  acct'[x][y] = acct[x][y] \/ acct'[x][y] = c
      BY <1>3, <3>4
    <3> QED BY <3>1, <3>3, <3>5
  <2> QED BY <1>2, <1>3, <2>2, DayTypes DEF DayInv, DatesHold
<1>9. SharesAreLow'
  <2> SUFFICES ASSUME NEW x \in Tenant, NEW y \in Session, NEW u \in Units, acct'[x][y].day = today
               PROVE  acct'[x][y].today[u] <= spentToday'[x][y][u]
    BY <1>2 DEF SharesAreLow
  <2>1. acct[x][y].day = today => acct[x][y].today[u] <= spentToday[x][y][u]
    BY DEF DayInv, SharesAreLow
  <2>2. spentToday[x][y][u] \in Nat /\ acct[x][y].today[u] \in Nat
    BY <1>3 DEF Amount, Entry
  <2>3. CASE x = t /\ y = s /\ acct' # acct
    <3>1. acct'[t][s] = Charged(e, cost)
      BY <1>2, <1>3, <2>3
    <3>2. acct'[t][s].today = Plus(IF e.day = today THEN e.today ELSE Zero, cost)
      BY <3>1 DEF Charged
    <3>3. e \in Entry /\ e.today \in Amount
      BY <1>3, EntryFacts DEF Entry
    <3>4. (IF e.day = today THEN e.today ELSE Zero)[u] <= spentToday[t][s][u]
          /\ (IF e.day = today THEN e.today ELSE Zero) \in Amount
          /\ (IF e.day = today THEN e.today ELSE Zero)[u] \in Nat
      <4>1. NeverSeen.day # today
        BY <1>3, DayTypes DEF NeverSeen
      <4>2. CASE e.day = today
        <5>1. e = acct[t][s]
          BY <4>1, <4>2
        <5> HIDE DEF e
        <5> QED BY <2>1, <2>2, <2>3, <3>3, <4>2, <5>1
      <4>3. CASE e.day # today
        <5> HIDE DEF e
        <5>1. Zero \in Amount /\ Zero[u] = 0
          BY AmountFacts
        <5>2. 0 <= spentToday[t][s][u]
          BY <2>2, <2>3
        <5> QED BY <4>3, <5>1, <5>2
      <4> QED BY <4>2, <4>3
    <3> DEFINE a == IF e.day = today THEN e.today ELSE Zero
    <3>5. Plus(a, cost)[u] = a[u] + cost[u]
      <4> HIDE DEF a
      <4> QED BY <1>1, <3>4, AmountFacts DEF a
    <3>6. acct'[t][s].today[u] = a[u] + cost[u]
      BY <3>2, <3>5
    <3> HIDE DEF a
    <3> QED BY <1>1, <1>5, <2>2, <2>3, <3>4, <3>6 DEF a
  <2>4. CASE ~(x = t /\ y = s /\ acct' # acct)
    <3>1. acct'[x][y] = acct[x][y]
      <4> HIDE DEF e
      <4> QED BY <1>2, <1>3, <2>4
    <3>2. spentToday[x][y][u] <= spentToday'[x][y][u] /\ spentToday'[x][y][u] \in Nat
      BY <1>1, <1>4, <1>5, <2>2
    <3> QED BY <2>1, <2>2, <3>1, <3>2
  <2> QED BY <2>3, <2>4
<1>10. ASSUME NEW x \in Tenant, NEW u \in Units
       PROVE  /\ RolledUsed[x][u] <= SpentToday(x, u)
              /\ RolledUsed[x][u] \in Nat /\ SpentToday(x, u) \in Nat
  <2>1. RolledUsed[x][u] \in Nat /\ SpentToday(x, u) \in Nat
    BY <1>3, SpentTyped DEF Amount
  <2> QED BY <2>1, ZeroSpend DEF DayInv, TotalsAreLow, RolledUsed
<1>11. TotalsAreLow'
  <2> SUFFICES ASSUME NEW x \in Tenant, NEW u \in Units
               PROVE  /\ dayUsed'[x][u] <= SpentToday(x, u)'
                      /\ disk.day = today => disk.used[x][u] <= SpentToday(x, u)'
    BY <1>2 DEF TotalsAreLow
  <2>1. disk.day = today => disk.used[x][u] <= SpentToday(x, u)
    BY DEF DayInv, TotalsAreLow
  <2>2. disk.used[x][u] \in Nat
    BY <1>3, DayTypes
  <2> QED BY <1>1, <1>6, <1>7, <1>10, <2>1, <2>2
<1>12. TotalsAreTrue'
  <2>1. RolledUsed' = dayUsed'
    BY <1>2 DEF RolledUsed
  <2> QED BY <1>2, <1>6, <1>7, <2>1 DEF DayInv, TotalsAreTrue
<1> QED BY <1>8, <1>9, <1>11, <1>12 DEF DayInv

LEMMA DayStep == BooksInv /\ DayInv /\ [Next]_vars => DayInv'
<1> SUFFICES ASSUME BooksInv, DayInv, [Next]_vars PROVE DayInv'
  OBVIOUS
<1>0. DaysTyped
  BY DEF BooksInv
<1>1. ASSUME NEW t \in Tenant, NEW s \in Session, CheckRefuses(t, s) PROVE DayInv'
  BY <1>0, <1>1, DayRolls DEF CheckRefuses, tableVars, worldVars, rollDay
<1>2. ASSUME NEW r \in Req, NEW t \in Tenant, NEW s \in Session, NEW override \in MayOverride,
             CheckPasses(r, t, s, override)
      PROVE  DayInv'
  BY <1>0, <1>2, DayRolls DEF CheckPasses, tableVars, worldVars, rollDay
<1>3. ASSUME NEW r \in Req, NothingToRecord(r) PROVE DayInv'
  BY <1>0, <1>3, DayRolls DEF NothingToRecord, tableVars, worldVars
<1>4. ASSUME NEW r \in Req, NEW cost \in Costs, Record(r, cost) PROVE DayInv'
  BY <1>4, DayRecord
<1>5. ASSUME spentToday' = spentToday
      PROVE  \A t \in Tenant, u \in Units : SpentToday(t, u)' = SpentToday(t, u)
  BY <1>5 DEF SpentToday
<1>6. ASSUME MemoryLost
      PROVE  /\ day' = NoDay /\ dayUsed' = NoSpend /\ ~up'
             /\ \A t \in Tenant, s \in Session : acct'[t][s].day = NoDay
  BY <1>6 DEF MemoryLost, NeverSeen
<1>7. CASE Stop
  <2>1. /\ up /\ today' = today /\ spentToday' = spentToday /\ lost' = lost
        /\ day' = NoDay /\ dayUsed' = NoSpend /\ ~up'
        /\ \A t \in Tenant, s \in Session : acct'[t][s].day = NoDay
    BY <1>6, <1>7 DEF Stop
  <2>2. disk'.day = (IF day = NoDay THEN today ELSE day) /\ disk'.used = dayUsed
    BY <1>7 DEF Stop, SaveState
  <2>3. DatesHold'
    BY <1>0, <2>1, <2>2, DayTypes DEF DayInv, DatesHold, NoDay
  <2>4. SharesAreLow'
    BY <1>0, <2>1, DayTypes DEF SharesAreLow
  <2>5. ASSUME NEW t \in Tenant, NEW u \in Units
        PROVE  /\ disk'.day = today => disk'.used[t][u] = RolledUsed[t][u]
               /\ disk'.day # today => RolledUsed[t][u] = 0
               /\ disk'.day = today => disk'.used[t][u] <= SpentToday(t, u)
    <3>1. CASE day = NoDay
      BY <1>0, <2>2, <3>1, DayTypes, SpentTyped, ZeroSpend DEF DayInv, DatesHold, RolledUsed
    <3>2. CASE day # NoDay
      BY <1>0, <2>2, <3>2, DayTypes, SpentTyped, ZeroSpend DEF DayInv, TotalsAreLow, RolledUsed
    <3> QED BY <3>1, <3>2
  <2>6. TotalsAreLow'
    BY <1>0, <1>5, <2>1, <2>5, DayTypes DEF TotalsAreLow
  <2>7. TotalsAreTrue'
    BY <1>5, <2>1, <2>5 DEF DayInv, TotalsAreTrue
  <2> QED BY <2>3, <2>4, <2>6, <2>7 DEF DayInv
<1>8. CASE Crash
  <2>1. /\ today' = today /\ spentToday' = spentToday /\ lost' /\ disk' = disk
        /\ day' = NoDay /\ dayUsed' = NoSpend /\ ~up'
        /\ \A t \in Tenant, s \in Session : acct'[t][s].day = NoDay
    BY <1>6, <1>8 DEF Crash
  <2>2. DatesHold'
    BY <1>0, <2>1, DayTypes DEF DayInv, DatesHold, NoDay
  <2>3. SharesAreLow'
    BY <1>0, <2>1, DayTypes DEF SharesAreLow
  <2>4. TotalsAreLow'
    BY <1>0, <1>5, <2>1, DayTypes DEF DayInv, TotalsAreLow
  <2> QED BY <2>1, <2>2, <2>3, <2>4 DEF DayInv, TotalsAreTrue
<1>9. CASE Start
  <2>1. /\ ~up /\ up' /\ acct' = acct /\ today' = today /\ disk' = disk
        /\ spentToday' = spentToday /\ lost' = lost
        /\ disk.day = today => day' = today /\ dayUsed' = disk.used
        /\ disk.day # today => day' = day /\ dayUsed' = dayUsed
    BY <1>9 DEF Start, LoadState, tableVars
  <2>2. day = NoDay /\ day # today /\ dayUsed = NoSpend
    BY <1>0, <2>1, DayTypes DEF DayInv, DatesHold
  <2>3. DatesHold'
    BY <1>0, <2>1, <2>2, DayTypes DEF DayInv, DatesHold
  <2>4. SharesAreLow'
    BY <2>1 DEF DayInv, SharesAreLow
  <2>5. TotalsAreLow'
    BY <1>5, <2>1, <2>2 DEF DayInv, TotalsAreLow
  <2>6. TotalsAreTrue'
    <3>1. ASSUME NEW t \in Tenant, NEW u \in Units
          PROVE  RolledUsed'[t][u] = IF disk.day = today THEN disk.used[t][u] ELSE 0
      BY <2>1, <2>2, ZeroSpend DEF RolledUsed
    <3> QED BY <1>5, <2>1, <3>1 DEF DayInv, TotalsAreTrue
  <2> QED BY <2>3, <2>4, <2>5, <2>6 DEF DayInv
<1>10. CASE Midnight
  <2>1. /\ today' = today + 1 /\ spentToday' = Nobody
        /\ acct' = acct /\ day' = day /\ dayUsed' = dayUsed /\ disk' = disk /\ up' = up
    BY <1>10 DEF Midnight, tableVars
  <2>2. \A t \in Tenant, u \in Units : SpentToday(t, u)' = 0
    <3>1. ASSUME NEW t \in Tenant, NEW u \in Units PROVE SpentToday(t, u)' = 0
      <4> DEFINE f == [s \in Session |-> spentToday'[t][s][u]]
      <4>1. f \in [Session -> Nat] /\ \A s \in Session : f[s] = 0
        BY <2>1 DEF Nobody, Zero
      <4>2. SumFunctionOnSet(f, Session) = 0
        <5> HIDE DEF f
        <5> QED BY <4>1, SpendAssumption, SumOfNone
      <4> QED BY <4>2 DEF SpentToday
    <3> QED BY <3>1
  <2>3. /\ day # today' /\ disk.day # today' /\ day <= today' /\ disk.day <= today'
    BY <1>0, <2>1, DayTypes DEF DayInv, DatesHold
  <2>4. \A t \in Tenant, s \in Session : acct[t][s].day # today' /\ acct[t][s].day <= today'
    <3>1. \A t \in Tenant, s \in Session : acct[t][s].day \in Nat
      BY SpendAssumption DEF BooksInv, Books, TablesTyped, Entry
    <3> QED BY <1>0, <2>1, <3>1, DayTypes DEF DayInv, DatesHold
  <2>5. DatesHold'
    BY <2>1, <2>3, <2>4 DEF DayInv, DatesHold
  <2>6. SharesAreLow' /\ TotalsAreLow'
    BY <2>1, <2>3, <2>4 DEF SharesAreLow, TotalsAreLow
  <2>7. TotalsAreTrue'
    BY <2>1, <2>2, <2>3, ZeroSpend DEF TotalsAreTrue, RolledUsed
  <2> QED BY <2>5, <2>6, <2>7 DEF DayInv
<1>11. CASE UNCHANGED vars
  <2>1. UNCHANGED <<acct, today, disk, up, lost, spentToday, day, dayUsed>>
    BY <1>11 DEF vars
  <2> QED BY <1>5, <2>1 DEF DayInv, DatesHold, SharesAreLow, TotalsAreLow, TotalsAreTrue, RolledUsed
<1> QED BY <1>1, <1>2, <1>3, <1>4, <1>7, <1>8, <1>9, <1>10, <1>11 DEF Next

\* If the live sessions account for the whole total, each of them spent what its
\* record says and nobody else spent anything.
LEMMA LeaderIs == BooksInv /\ DayInv => LeaderIsLargest
<1> SUFFICES ASSUME BooksInv, DayInv, up, ~lost, NEW t \in Tenant, NEW u \in Units,
                    NEW s \in dayLeader(t, u), NEW x \in Session
             PROVE  spentToday[t][x][u] <= spentToday[t][s][u]
  BY DEF LeaderIsLargest
<1> DEFINE ofToday == {y \in live[t] : acct[t][y].day = today}
           f == [y \in Session |-> acct[t][y].today[u]]
           g == [y \in Session |-> spentToday[t][y][u]]
<1>1. /\ s \in ofToday /\ SumFunctionOnSet(f, ofToday) >= RolledUsed[t][u]
      /\ \A y \in ofToday : acct[t][y].today[u] <= acct[t][s].today[u]
  BY DEF dayLeader
<1>2. DaysTyped /\ live[t] \in SUBSET Session /\ acct \in [Tenant -> [Session -> Entry]]
      /\ spentToday \in [Tenant -> [Session -> Amount]]
  BY DEF BooksInv, Books, TablesTyped, DaysTyped
<1>3. f \in [Session -> Nat] /\ g \in [Session -> Nat] /\ ofToday \in SUBSET Session
  BY <1>2 DEF Amount, Entry
<1>4. RolledUsed[t][u] = SumFunctionOnSet(g, Session)
  BY DEF DayInv, TotalsAreTrue, SpentToday
<1>5. \A y \in ofToday : f[y] <= g[y]
  BY <1>3 DEF DayInv, SharesAreLow
<1>6. SumFunctionOnSet(g, Session) <= SumFunctionOnSet(f, ofToday)
  <2>1. SumFunctionOnSet(g, Session) \in Nat /\ SumFunctionOnSet(f, ofToday) \in Nat
    <3>1. Session \in SUBSET Session
      OBVIOUS
    <3> HIDE DEF f, g, ofToday
    <3> QED BY <1>3, <3>1, SpendAssumption, SumType
  <2> HIDE DEF f, g, ofToday
  <2> QED BY <1>1, <1>4, <2>1
<1>7. \A y \in Session : IF y \in ofToday THEN f[y] = g[y] ELSE g[y] = 0
  <2> HIDE DEF f, g, ofToday
  <2> QED BY <1>3, <1>5, <1>6, SpendAssumption, SumIsAll
<1>8. s \in Session /\ f[s] = g[s] /\ g[s] \in Nat
  BY <1>1, <1>3, <1>7
<1>9. CASE x \in ofToday
  <2>1. f[x] <= f[s]
    BY <1>1, <1>8, <1>9
  <2>2. f[x] = g[x]
    BY <1>7, <1>9
  <2> QED BY <1>8, <2>1, <2>2
<1>10. CASE x \notin ofToday
  <2>1. g[x] = 0
    BY <1>7, <1>10
  <2> QED BY <1>8, <2>1
<1> QED BY <1>9, <1>10

LEMMA DayGives == BooksInv /\ DayInv => DayTotalIsTrue
<1> SUFFICES ASSUME BooksInv, DayInv PROVE DayTotalIsTrue
  OBVIOUS
<1>1. DaysTyped
  BY DEF BooksInv
<1>2. ASSUME NEW t \in Tenant, NEW u \in Units
      PROVE  /\ RolledUsed[t][u] <= SpentToday(t, u)
             /\ up /\ ~lost => RolledUsed[t][u] = SpentToday(t, u)
  BY <1>1, SpentTyped, ZeroSpend DEF DayInv, TotalsAreLow, TotalsAreTrue, RolledUsed
<1> QED BY <1>2, LeaderIs DEF DayTotalIsTrue

\* The day total of a tenant is what was recorded for it today, unless a process
\* died, then never more; and a refusal blames the day's largest spender or
\* nobody: for any tenants, sessions, table bounds, costs and number of days.
THEOREM DayTotalIsAlwaysTrue == Spec => []DayTotalIsTrue
<1>1. Init => BooksInv /\ DayInv
  BY InitBooks, InitDay
<1>2. BooksInv /\ DayInv /\ [Next]_vars => (BooksInv /\ DayInv)'
  BY BooksStep, DayStep
<1>3. BooksInv /\ DayInv => DayTotalIsTrue
  BY DayGives
<1> QED BY <1>1, <1>2, <1>3, PTL DEF Spec

-----------------------------------------------------------------------------
(* Corpus submissions and the pool made of them.                           *)

Sub == [tag : Nat \ {0}, taken : 0..MaxHour, usd : Nat, rules : Rules, intact : BOOLEAN,
        machine : Machine]

\* The machines: a file says what its machine had spent, and as long as a machine
\* wrote one secret, all that it submits carries it.
Submitting ==
    /\ hour \in 0..MaxHour /\ outlay \in [Machine -> 0..MaxSpent]
    /\ secret \in [Machine -> Int] /\ minted \in Nat
    /\ job \in [Proc -> [at : {"idle", "mint", "write"}, machine : Machine \cup {"none"},
                         secret : Int]]
    /\ \A p \in Proc : job[p].at # "idle" => job[p].machine \in Machine
    /\ \A p \in Proc : job[p].at = "write" => job[p].secret > 0
    /\ \A m \in Machine : secret[m] >= -1
    /\ dir \in SUBSET Sub /\ IsFiniteSet(dir)
    /\ \A f \in dir : f.intact /\ f.usd <= outlay[f.machine]
OneSecret ==
    \A m \in Machine : m \notin forked =>
        /\ \A f \in dir : f.machine = m => f.tag = secret[m]
        /\ \A p \in Proc : job[p].at = "write" /\ job[p].machine = m => job[p].secret = secret[m]

\* The pool: every file is to come, in the roster, displaced by a later one of its
\* source, or refused.
GivenTyped ==
    /\ given \in SUBSET Sub /\ IsFiniteSet(given) /\ todo \in SUBSET given
    /\ pooling \in BOOLEAN
    /\ \A f \in given : f.intact => f \in dir
    /\ roster \in Seq(given) /\ superseded \in Seq(given) /\ refused \in SUBSET given
RosterHolds ==
    /\ \A i \in DOMAIN roster : roster[i].intact
    /\ \A i, j \in DOMAIN roster : roster[i].tag = roster[j].tag => i = j
    /\ \A k \in DOMAIN superseded : \E i \in DOMAIN roster :
          roster[i].tag = superseded[k].tag /\ superseded[k].taken < roster[i].taken
    /\ ToSet(roster) \cup ToSet(superseded) \cup refused = given \ todo
    /\ Len(roster) + Len(superseded) + Cardinality(refused) = Cardinality(given \ todo)

PoolInv == Submitting /\ OneSecret /\ GivenTyped /\ RosterHolds

LEMMA InitPool == PoolInit => PoolInv
<1> SUFFICES ASSUME PoolInit PROVE PoolInv
  OBVIOUS
<1>1. Submitting /\ OneSecret
  BY PoolAssumption, FS_EmptySet DEF PoolInit, Submitting, OneSecret, NoJob
<1>2. GivenTyped
  <2>1. given = {} /\ todo = {} /\ pooling = FALSE /\ roster = <<>> /\ superseded = <<>> /\ refused = {}
    BY DEF PoolInit
  <2>2. <<>> \in Seq({}) /\ IsFiniteSet({})
    BY FS_EmptySet
  <2> QED BY <2>1, <2>2 DEF GivenTyped
<1>3. RosterHolds
  <2>1. roster = <<>> /\ superseded = <<>> /\ refused = {} /\ given = {} /\ todo = {}
    BY DEF PoolInit
  <2>2. Cardinality({}) = 0 /\ given \ todo = {}
    BY <2>1, FS_EmptySet
  <2> QED BY <2>1, <2>2 DEF RosterHolds, ToSet
<1> QED BY <1>1, <1>2, <1>3 DEF PoolInv

\* A machine's step leaves the pool alone, which has not begun.
LEMMA MachineSteps ==
  ASSUME PoolInv, given = {}, Contributing PROVE PoolInv'
<1>1. UNCHANGED pool
  BY DEF Contributing, DeleteShort, contributeCorpus, contributorSecret, MintKilled, WriteCorpus
<1>2. GivenTyped' /\ RosterHolds'
  BY <1>1 DEF PoolInv, GivenTyped, RosterHolds, pool
<1>3. ASSUME NEW m \in Machine, DeleteShort(m) PROVE Submitting' /\ OneSecret'
  <2>1. /\ secret' = [secret EXCEPT ![m] = 0] /\ UNCHANGED <<hour, outlay, minted, job, dir>>
        /\ forked' = IF \E f \in dir : f.machine = m THEN forked \cup {m} ELSE forked
        /\ secret[m] = -1
    BY <1>3 DEF DeleteShort, world
  <2>2. Submitting'
    BY <2>1 DEF PoolInv, Submitting
  <2>3. ASSUME NEW n \in Machine, n \notin forked'
        PROVE  /\ \A f \in dir : f.machine = n => f.tag = secret'[n]
               /\ \A p \in Proc : job[p].at = "write" /\ job[p].machine = n => job[p].secret = secret'[n]
    BY <2>1, <2>3 DEF PoolInv, Submitting, OneSecret
  <2> QED BY <2>1, <2>2, <2>3 DEF OneSecret
<1>4. ASSUME NEW m \in Machine, NEW p \in Proc, contributeCorpus(p, m)
      PROVE  Submitting' /\ OneSecret'
  <2> DEFINE j == [at |-> IF secret[m] = 0 THEN "mint" ELSE "write", machine |-> m, secret |-> secret[m]]
  <2>1. /\ job' = [job EXCEPT ![p] = j] /\ UNCHANGED <<hour, outlay, secret, minted, dir, forked>>
        /\ secret[m] # -1
    BY <1>4 DEF contributeCorpus, world
  <2>2. /\ j \in [at : {"idle", "mint", "write"}, machine : Machine \cup {"none"}, secret : Int]
        /\ j.machine = m /\ j.secret = secret[m] /\ (j.at = "write" => secret[m] > 0)
    BY <2>1 DEF PoolInv, Submitting
  <2> HIDE DEF j
  <2>3. \A q \in Proc : job'[q] = IF q = p THEN j ELSE job[q]
    BY <2>1 DEF PoolInv, Submitting
  <2>4. Submitting'
    BY <2>1, <2>2, <2>3 DEF PoolInv, Submitting
  <2>5. OneSecret'
    BY <2>1, <2>2, <2>3 DEF PoolInv, OneSecret
  <2> QED BY <2>4, <2>5
<1>5. ASSUME NEW p \in Proc, contributorSecret(p) PROVE Submitting' /\ OneSecret'
  <2> DEFINE m == job[p].machine
             j == [job[p] EXCEPT !.at = "write", !.secret = minted + 1]
  <2>1. /\ job[p].at = "mint" /\ minted' = minted + 1
        /\ secret' = [secret EXCEPT ![m] = minted + 1]
        /\ forked' = IF secret[m] = 0 THEN forked ELSE forked \cup {m}
        /\ job' = [job EXCEPT ![p] = j] /\ UNCHANGED <<hour, outlay, dir>>
    BY <1>5 DEF contributorSecret, world, PoolInv, Submitting
  <2>2. /\ m \in Machine /\ minted + 1 \in Nat /\ minted + 1 > 0
        /\ j \in [at : {"idle", "mint", "write"}, machine : Machine \cup {"none"}, secret : Int]
        /\ j.machine = m /\ j.secret = minted + 1 /\ j.at = "write"
    <3>1. /\ job[p] \in [at : {"idle", "mint", "write"}, machine : Machine \cup {"none"}, secret : Int]
          /\ job[p].at = "mint" => job[p].machine \in Machine
          /\ minted \in Nat
      BY DEF PoolInv, Submitting
    <3>2. minted + 1 \in Nat /\ minted + 1 > 0 /\ minted + 1 \in Int
      BY <3>1
    <3> QED BY <2>1, <3>1, <3>2
  <2> HIDE DEF j, m
  <2>3. /\ \A q \in Proc : job'[q] = IF q = p THEN j ELSE job[q]
        /\ \A n \in Machine : secret'[n] = IF n = m THEN minted + 1 ELSE secret[n]
    BY <2>1 DEF PoolInv, Submitting
  <2>4. Submitting'
    BY <2>1, <2>2, <2>3 DEF PoolInv, Submitting
  <2>5. ASSUME NEW n \in Machine, n \notin forked'
        PROVE  /\ \A f \in dir : f.machine = n => f.tag = secret'[n]
               /\ \A q \in Proc : job'[q].at = "write" /\ job'[q].machine = n => job'[q].secret = secret'[n]
    <3>0. /\ n \notin forked /\ (n = m => secret[m] = 0)
          /\ \A f \in dir : f.machine = n => f.tag = secret[n] /\ f.tag # 0
          /\ \A q \in Proc : job[q].at = "write" /\ job[q].machine = n =>
                job[q].secret = secret[n] /\ job[q].secret # 0
      BY <2>1, <2>5 DEF PoolInv, OneSecret, Submitting, Sub
    <3> QED BY <2>2, <2>3, <3>0
  <2> QED BY <2>1, <2>4, <2>5 DEF OneSecret
<1>6. ASSUME NEW p \in Proc, MintKilled(p) PROVE Submitting' /\ OneSecret'
  <2> DEFINE m == job[p].machine
  <2>1. /\ job[p].at = "mint" /\ secret' = [secret EXCEPT ![m] = -1]
        /\ forked' = IF secret[m] = 0 THEN forked ELSE forked \cup {m}
        /\ job' = [job EXCEPT ![p] = NoJob] /\ UNCHANGED <<hour, outlay, minted, dir>>
    BY <1>6 DEF MintKilled, world
  <2>2. /\ m \in Machine
        /\ NoJob \in [at : {"idle", "mint", "write"}, machine : Machine \cup {"none"}, secret : Int]
        /\ NoJob.at = "idle"
    BY <2>1 DEF PoolInv, Submitting, NoJob
  <2> HIDE DEF m
  <2>3. /\ \A q \in Proc : job'[q] = IF q = p THEN NoJob ELSE job[q]
        /\ \A n \in Machine : secret'[n] = IF n = m THEN -1 ELSE secret[n]
    BY <2>1 DEF PoolInv, Submitting
  <2>4. Submitting'
    BY <2>1, <2>2, <2>3 DEF PoolInv, Submitting
  <2>5. ASSUME NEW n \in Machine, n \notin forked'
        PROVE  /\ \A f \in dir : f.machine = n => f.tag = secret'[n]
               /\ \A q \in Proc : job'[q].at = "write" /\ job'[q].machine = n => job'[q].secret = secret'[n]
    <3>0. /\ n \notin forked /\ (n = m => secret[m] = 0)
          /\ \A f \in dir : f.machine = n => f.tag = secret[n] /\ f.tag # 0
          /\ \A q \in Proc : job[q].at = "write" /\ job[q].machine = n =>
                job[q].secret = secret[n] /\ job[q].secret # 0
      BY <2>1, <2>5 DEF PoolInv, OneSecret, Submitting, Sub
    <3> QED BY <2>2, <2>3, <3>0
  <2> QED BY <2>1, <2>4, <2>5 DEF OneSecret
<1>7. ASSUME NEW p \in Proc, NEW h \in 0..MaxHour, NEW s \in 0..MaxSpent, NEW r \in Rules,
             WriteCorpus(p, h, s, r)
      PROVE  Submitting' /\ OneSecret'
  <2> DEFINE m == job[p].machine
             f0 == Submission(p, h, s, r)
  <2>1. /\ job[p].at = "write" /\ h >= hour /\ s >= outlay[m]
        /\ job' = [job EXCEPT ![p] = NoJob] /\ UNCHANGED <<secret, minted, forked>>
        /\ IF s = 0 THEN UNCHANGED <<hour, outlay, dir>>
           ELSE hour' = h /\ outlay' = [outlay EXCEPT ![m] = s] /\ dir' = dir \cup {f0}
    BY <1>7 DEF WriteCorpus
  <2>2. /\ m \in Machine /\ s \in Nat
        /\ NoJob \in [at : {"idle", "mint", "write"}, machine : Machine \cup {"none"}, secret : Int]
        /\ NoJob.at = "idle"
        /\ job[p].secret \in Nat \ {0}
    BY <2>1 DEF PoolInv, Submitting, NoJob
  <2>3. f0 \in Sub /\ f0.intact /\ f0.usd = s /\ f0.machine = m /\ f0.tag = job[p].secret
    BY <2>2 DEF Submission, Sub
  <2> HIDE DEF m, f0
  <2>4. \A q \in Proc : job'[q] = IF q = p THEN NoJob ELSE job[q]
    BY <2>1 DEF PoolInv, Submitting
  <2>5. /\ hour' \in 0..MaxHour /\ outlay' \in [Machine -> 0..MaxSpent]
        /\ \A n \in Machine : outlay[n] <= outlay'[n]
        /\ s # 0 => outlay'[m] = s
    BY <2>1, <2>2 DEF PoolInv, Submitting
  <2>6. /\ dir' \in SUBSET Sub /\ IsFiniteSet(dir')
        /\ \A f \in dir' : f \in dir \/ (f = f0 /\ s # 0)
    BY <2>1, <2>3, FS_AddElement DEF PoolInv, Submitting
  <2>7. \A f \in dir' : f.intact /\ f.usd <= outlay'[f.machine]
    <3> SUFFICES ASSUME NEW f \in dir' PROVE f.intact /\ f.usd <= outlay'[f.machine]
      OBVIOUS
    <3>1. CASE f \in dir
      <4>1. f.intact /\ f.usd <= outlay[f.machine] /\ f.machine \in Machine /\ f.usd \in Nat
        BY <3>1 DEF PoolInv, Submitting, Sub
      <4>2. outlay[f.machine] \in Nat /\ outlay'[f.machine] \in Nat
        BY <2>5, <4>1 DEF PoolInv, Submitting
      <4> QED BY <2>5, <4>1, <4>2
    <3>2. CASE f = f0 /\ s # 0
      BY <2>2, <2>3, <2>5, <3>2
    <3> QED BY <2>6, <3>1, <3>2
  <2>8. Submitting'
    BY <2>1, <2>2, <2>4, <2>5, <2>6, <2>7 DEF PoolInv, Submitting
  <2>9. OneSecret'
    <3> SUFFICES ASSUME NEW n \in Machine, n \notin forked
                 PROVE  /\ \A f \in dir' : f.machine = n => f.tag = secret[n]
                        /\ \A q \in Proc : job'[q].at = "write" /\ job'[q].machine = n =>
                              job'[q].secret = secret[n]
      BY <2>1 DEF OneSecret
    <3>1. /\ \A f \in dir : f.machine = n => f.tag = secret[n]
          /\ \A q \in Proc : job[q].at = "write" /\ job[q].machine = n => job[q].secret = secret[n]
      BY DEF PoolInv, OneSecret
    <3>2. m = n => f0.tag = secret[n]
      BY <2>1, <2>3, <3>1 DEF m
    <3> QED BY <2>2, <2>3, <2>4, <2>6, <3>1, <3>2
  <2> QED BY <2>8, <2>9
<1> QED BY <1>2, <1>3, <1>4, <1>5, <1>6, <1>7 DEF Contributing, PoolInv

LEMMA Appended ==
  ASSUME NEW S, NEW q \in Seq(S), NEW c \in S
  PROVE  /\ Append(q, c) \in Seq(S) /\ Len(Append(q, c)) = Len(q) + 1 /\ Len(q) \in Nat
         /\ DOMAIN Append(q, c) = DOMAIN q \cup {Len(q) + 1} /\ Len(q) + 1 \notin DOMAIN q
         /\ \A i \in DOMAIN q : Append(q, c)[i] = q[i]
         /\ Append(q, c)[Len(q) + 1] = c
         /\ ToSet(Append(q, c)) = ToSet(q) \cup {c}
<1>1. /\ Append(q, c) \in Seq(S) /\ Len(Append(q, c)) = Len(q) + 1 /\ Len(q) \in Nat
      /\ DOMAIN Append(q, c) = DOMAIN q \cup {Len(q) + 1} /\ Len(q) + 1 \notin DOMAIN q
      /\ \A i \in DOMAIN q : Append(q, c)[i] = q[i]
      /\ Append(q, c)[Len(q) + 1] = c
  OBVIOUS
<1>2. ToSet(Append(q, c)) = ToSet(q) \cup {c}
  BY <1>1 DEF ToSet
<1> QED BY <1>1, <1>2

LEMMA PoolBegins == ASSUME PoolInv, runPool PROVE PoolInv'
<1>1. /\ given' \in {dir} \cup {(dir \ {f}) \cup {Edited(f)} : f \in dir}
      /\ pooling' = TRUE /\ todo' = given' /\ roster' = <<>> /\ superseded' = <<>> /\ refused' = {}
      /\ UNCHANGED <<hour, outlay, secret, minted, job, dir, forked>>
  BY DEF runPool, world
<1>2. Submitting' /\ OneSecret'
  BY <1>1 DEF PoolInv, Submitting, OneSecret
<1>3. /\ given' \in SUBSET Sub /\ IsFiniteSet(given')
      /\ \A f \in given' : f.intact => f \in dir
  <2>1. dir \in SUBSET Sub /\ IsFiniteSet(dir)
    BY DEF PoolInv, Submitting
  <2>2. CASE given' = dir
    BY <2>1, <2>2
  <2>3. ASSUME NEW f \in dir, given' = (dir \ {f}) \cup {Edited(f)}
        PROVE  /\ given' \in SUBSET Sub /\ IsFiniteSet(given')
               /\ \A g \in given' : g.intact => g \in dir
    <3>1. Edited(f) \in Sub /\ ~Edited(f).intact
      <4>1. f \in Sub /\ f.usd \in Nat /\ f.usd + 1 \in Nat
        BY <2>1 DEF Sub
      <4> QED BY <4>1 DEF Edited, Sub
    <3>2. IsFiniteSet(dir \ {f})
      BY <2>1, FS_RemoveElement
    <3>3. IsFiniteSet((dir \ {f}) \cup {Edited(f)})
      BY <3>2, FS_AddElement
    <3> QED BY <2>1, <2>3, <3>1, <3>3
  <2> QED BY <1>1, <2>2, <2>3
<1>4. GivenTyped'
  <2>1. <<>> \in Seq(given')
    OBVIOUS
  <2> QED BY <1>1, <1>3, <2>1 DEF GivenTyped
<1>5. RosterHolds'
  <2>1. given' \ todo' = {} /\ Cardinality({}) = 0
    BY <1>1, FS_EmptySet
  <2> QED BY <1>1, <2>1 DEF RosterHolds, ToSet
<1> QED BY <1>2, <1>4, <1>5 DEF PoolInv

\* A file is added, whatever becomes of it.
LEMMA PoolAdds == ASSUME PoolInv, NEW c \in todo, Add(c) PROVE PoolInv'
<1>1. /\ todo' = todo \ {c} /\ UNCHANGED <<hour, outlay, secret, minted, job, dir, forked, given, pooling>>
  BY DEF Add, world
<1>2. Submitting' /\ OneSecret'
  BY <1>1 DEF PoolInv, Submitting, OneSecret
<1> DEFINE done == given \ todo
<1>3. /\ given \in SUBSET Sub /\ IsFiniteSet(given) /\ todo \in SUBSET given
      /\ c \in given /\ c \notin done /\ c \in Sub
      /\ given' \ todo' = done \cup {c}
      /\ roster \in Seq(given) /\ superseded \in Seq(given) /\ refused \in SUBSET given
  BY <1>1 DEF PoolInv, GivenTyped
<1>4. ToSet(roster) \cup ToSet(superseded) \cup refused = done
  BY DEF PoolInv, RosterHolds
<1>5. /\ IsFiniteSet(done) /\ Cardinality(done) \in Nat
      /\ Cardinality(done \cup {c}) = Cardinality(done) + 1
      /\ IsFiniteSet(refused) /\ Cardinality(refused) \in Nat
      /\ Cardinality(refused \cup {c}) = Cardinality(refused) + 1
  <2>1. IsFiniteSet(done) /\ IsFiniteSet(refused) /\ c \notin refused
    BY <1>3, <1>4, FS_Subset
  <2> QED BY <1>3, <2>1, FS_AddElement, FS_CardinalityType
<1>6. /\ Len(roster) \in Nat /\ Len(superseded) \in Nat /\ Cardinality(refused) \in Nat
      /\ Cardinality(given' \ todo') = Len(roster) + Len(superseded) + Cardinality(refused) + 1
  <2>1. Len(roster) + Len(superseded) + Cardinality(refused) = Cardinality(done)
    BY DEF PoolInv, RosterHolds
  <2>2. Cardinality(given' \ todo') = Cardinality(done) + 1 /\ Len(roster) \in Nat /\ Len(superseded) \in Nat
    <3> HIDE DEF done
    <3>1. given' \ todo' = done \cup {c}
      BY <1>3
    <3>2. Cardinality(given' \ todo') = Cardinality(done \cup {c})
      BY <3>1
    <3> QED BY <1>3, <1>5, <3>2
  <2> QED BY <1>5, <2>1, <2>2
<1> HIDE DEF done
<1>7. CASE refused' = refused \cup {c} /\ UNCHANGED <<roster, superseded>>
  <2>1. GivenTyped'
    BY <1>1, <1>3, <1>7 DEF PoolInv, GivenTyped
  <2>2. /\ ToSet(roster') \cup ToSet(superseded') \cup refused' = given' \ todo'
    BY <1>3, <1>4, <1>7
  <2>3. Len(roster') + Len(superseded') + Cardinality(refused') = Cardinality(given' \ todo')
    <3>1. Len(roster') = Len(roster) /\ Len(superseded') = Len(superseded)
          /\ Cardinality(refused') = Cardinality(refused) + 1
      BY <1>5, <1>7
    <3> QED BY <1>6, <3>1
  <2> QED BY <1>2, <1>7, <2>1, <2>2, <2>3 DEF PoolInv, RosterHolds
<1>8. CASE /\ Addable(c) /\ SameSource(c) = {}
           /\ roster' = Append(roster, c) /\ UNCHANGED <<superseded, refused>>
  <2> DEFINE n == Len(roster) + 1
  <2>1. /\ roster' \in Seq(given) /\ Len(roster') = n
        /\ DOMAIN roster' = DOMAIN roster \cup {n} /\ n \notin DOMAIN roster
        /\ \A i \in DOMAIN roster : roster'[i] = roster[i]
        /\ roster'[n] = c /\ ToSet(roster') = ToSet(roster) \cup {c}
    BY <1>3, <1>8, Appended
  <2>2. c.intact /\ \A i \in DOMAIN roster : roster[i].tag # c.tag
    BY <1>8 DEF Addable, SameSource
  <2>3. GivenTyped'
    BY <1>1, <1>3, <1>8, <2>1 DEF PoolInv, GivenTyped
  <2>4. ToSet(roster') \cup ToSet(superseded') \cup refused' = given' \ todo'
    BY <1>3, <1>4, <1>8, <2>1
  <2>5. Len(roster') + Len(superseded') + Cardinality(refused') = Cardinality(given' \ todo')
    <3>1. Len(roster') = Len(roster) + 1 /\ Len(superseded') = Len(superseded)
          /\ Cardinality(refused') = Cardinality(refused)
      BY <1>8, <2>1
    <3> QED BY <1>6, <3>1
  <2> HIDE DEF n
  <2>6. /\ \A i \in DOMAIN roster' : roster'[i].intact
        /\ \A i, j \in DOMAIN roster' : roster'[i].tag = roster'[j].tag => i = j
    BY <2>1, <2>2 DEF PoolInv, RosterHolds
  <2>7. \A k \in DOMAIN superseded : \E i \in DOMAIN roster' :
           roster'[i].tag = superseded[k].tag /\ superseded[k].taken < roster'[i].taken
    BY <2>1 DEF PoolInv, RosterHolds
  <2> QED BY <1>2, <1>8, <2>3, <2>4, <2>5, <2>6, <2>7 DEF PoolInv, RosterHolds
<1>9. ASSUME NEW i \in SameSource(c), Addable(c), roster[i].taken # c.taken, ~Newer(roster[i], c),
             superseded' = Append(superseded, c), UNCHANGED <<roster, refused>>
      PROVE  PoolInv'
  <2> DEFINE n == Len(superseded) + 1
  <2>1. /\ superseded' \in Seq(given) /\ Len(superseded') = n
        /\ DOMAIN superseded' = DOMAIN superseded \cup {n}
        /\ \A k \in DOMAIN superseded : superseded'[k] = superseded[k]
        /\ superseded'[n] = c /\ ToSet(superseded') = ToSet(superseded) \cup {c}
    BY <1>3, <1>9, Appended
  <2>2. i \in DOMAIN roster /\ roster[i].tag = c.tag /\ c.taken < roster[i].taken
    <3>1. i \in DOMAIN roster /\ roster[i].tag = c.tag /\ roster[i] \in Sub
      BY <1>3, <1>9 DEF SameSource
    <3>2. c.taken \in Int /\ roster[i].taken \in Int
      BY <1>3, <3>1, PoolAssumption DEF Sub
    <3> QED BY <1>9, <3>1, <3>2 DEF Newer
  <2>3. GivenTyped'
    BY <1>1, <1>3, <1>9, <2>1 DEF PoolInv, GivenTyped
  <2>4. ToSet(roster') \cup ToSet(superseded') \cup refused' = given' \ todo'
    BY <1>3, <1>4, <1>9, <2>1
  <2>5. Len(roster') + Len(superseded') + Cardinality(refused') = Cardinality(given' \ todo')
    <3>1. Len(roster') = Len(roster) /\ Len(superseded') = Len(superseded) + 1
          /\ Cardinality(refused') = Cardinality(refused)
      BY <1>9, <2>1
    <3> QED BY <1>6, <3>1
  <2> HIDE DEF n
  <2>6. \A k \in DOMAIN superseded' : \E x \in DOMAIN roster :
           roster[x].tag = superseded'[k].tag /\ superseded'[k].taken < roster[x].taken
    BY <2>1, <2>2 DEF PoolInv, RosterHolds
  <2> QED BY <1>2, <1>9, <2>3, <2>4, <2>5, <2>6 DEF PoolInv, RosterHolds
<1>10. ASSUME NEW i \in SameSource(c), Addable(c), Newer(roster[i], c),
              superseded' = Append(superseded, roster[i]), roster' = [roster EXCEPT ![i] = c],
              UNCHANGED refused
       PROVE  PoolInv'
  <2> DEFINE n == Len(superseded) + 1
             e == roster[i]
  <2>0. i \in DOMAIN roster /\ e.tag = c.tag /\ e \in given /\ e.taken < c.taken /\ c.intact
        /\ e.taken \in Int /\ c.taken \in Int /\ e \in ToSet(roster)
    <3>1. i \in DOMAIN roster /\ e.tag = c.tag /\ e \in given /\ c.intact
      BY <1>3, <1>10 DEF SameSource, Addable
    <3>2. c.taken \in Int /\ e.taken \in Int
      BY <1>3, <3>1, PoolAssumption DEF Sub
    <3> QED BY <1>10, <3>1, <3>2 DEF Newer, ToSet
  <2>1. /\ superseded' \in Seq(given) /\ Len(superseded') = n
        /\ DOMAIN superseded' = DOMAIN superseded \cup {n}
        /\ \A k \in DOMAIN superseded : superseded'[k] = superseded[k]
        /\ superseded'[n] = e /\ ToSet(superseded') = ToSet(superseded) \cup {e}
    BY <1>3, <1>10, <2>0, Appended
  <2>2. /\ roster' \in Seq(given) /\ Len(roster') = Len(roster) /\ DOMAIN roster' = DOMAIN roster
        /\ \A j \in DOMAIN roster : roster'[j] = IF j = i THEN c ELSE roster[j]
        /\ ToSet(roster') \cup {e} = ToSet(roster) \cup {c}
    <3>1. roster \in Seq(given) /\ c \in given /\ i \in DOMAIN roster /\ roster' = [roster EXCEPT ![i] = c]
      BY <1>3, <1>10, <2>0
    <3>2. /\ roster' \in Seq(given) /\ Len(roster') = Len(roster) /\ DOMAIN roster' = DOMAIN roster
          /\ \A k \in DOMAIN roster : roster'[k] = IF k = i THEN c ELSE roster[k]
      BY <3>1
    <3>3. ToSet(roster') \cup {roster[i]} = ToSet(roster) \cup {c}
      BY <3>1, <3>2 DEF ToSet
    <3> QED BY <3>2, <3>3
  <2> HIDE DEF e
  <2>3. GivenTyped'
    BY <1>1, <1>3, <1>10, <2>1, <2>2 DEF PoolInv, GivenTyped
  <2>4. ToSet(roster') \cup ToSet(superseded') \cup refused' = given' \ todo'
    BY <1>3, <1>4, <1>10, <2>0, <2>1, <2>2
  <2>5. Len(roster') + Len(superseded') + Cardinality(refused') = Cardinality(given' \ todo')
    <3>1. Len(roster') = Len(roster) /\ Len(superseded') = Len(superseded) + 1
          /\ Cardinality(refused') = Cardinality(refused)
      BY <1>10, <2>1, <2>2
    <3> QED BY <1>6, <3>1
  <2> HIDE DEF n
  <2>6. /\ \A x \in DOMAIN roster' : roster'[x].intact
        /\ \A x, y \in DOMAIN roster' : roster'[x].tag = roster'[y].tag => x = y
    BY <2>0, <2>2 DEF PoolInv, RosterHolds, e
  <2>7. ASSUME NEW k \in DOMAIN superseded'
        PROVE  \E x \in DOMAIN roster' :
                  roster'[x].tag = superseded'[k].tag /\ superseded'[k].taken < roster'[x].taken
    <3>1. CASE k = n /\ superseded'[k] = e
      BY <2>0, <2>2, <3>1
    <3>2. CASE k \in DOMAIN superseded
      <4>1. PICK x \in DOMAIN roster :
               roster[x].tag = superseded[k].tag /\ superseded[k].taken < roster[x].taken
        BY <3>2 DEF PoolInv, RosterHolds
      <4>2. CASE x # i
        BY <2>1, <2>2, <3>2, <4>1, <4>2
      <4>3. CASE x = i
        <5>1. superseded[k] \in Sub
          BY <1>3, <3>2
        <5>2. superseded[k].taken \in Int
          BY <5>1, PoolAssumption DEF Sub
        <5>3. superseded[k].taken < e.taken /\ superseded[k].tag = e.tag
          BY <4>1, <4>3 DEF e
        <5>4. superseded[k].taken < c.taken
          BY <2>0, <5>2, <5>3
        <5> QED BY <2>0, <2>1, <2>2, <3>2, <5>3, <5>4
      <4> QED BY <4>2, <4>3
    <3> QED BY <2>1, <3>1, <3>2
  <2> QED BY <1>2, <2>3, <2>4, <2>5, <2>6, <2>7 DEF PoolInv, RosterHolds
<1> QED BY <1>7, <1>8, <1>9, <1>10 DEF Add

\* A sum over some is no larger than one over others that stand for them, each
\* for one, and are no smaller.
LEMMA SumOverImages ==
  ASSUME NEW S, IsFiniteSet(S), NEW T, IsFiniteSet(T), NEW f \in [S -> Nat], NEW h \in [T -> Nat],
         NEW m \in [S -> T], \A x, y \in S : m[x] = m[y] => x = y, \A x \in S : f[x] <= h[m[x]]
  PROVE  SumFunctionOnSet(f, S) <= SumFunctionOnSet(h, T)
<1> DEFINE image(s) == {m[x] : x \in s}
           Bad == {s \in SUBSET S : ~(SumFunctionOnSet(f, s) <= SumFunctionOnSet(h, image(s)))}
<1>1. /\ \A s \in SUBSET S : IsFiniteSet(s) /\ SumFunctionOnSet(f, s) \in Nat
      /\ \A s \in SUBSET T : IsFiniteSet(s) /\ SumFunctionOnSet(h, s) \in Nat
  BY SumType
<1>2. \A s \in SUBSET S : image(s) \in SUBSET T
  OBVIOUS
<1>3. Bad = {}
  <2> SUFFICES ASSUME Bad # {} PROVE FALSE
    OBVIOUS
  <2>1. PICK s \in Bad : \A r \in Bad : Cardinality(s) <= Cardinality(r)
    <3>1. \A s \in Bad : IsFiniteSet(s)
      BY <1>1
    <3> HIDE DEF Bad
    <3> QED BY <3>1, SmallestSet
  <2>2. s \in SUBSET S /\ IsFiniteSet(s) /\ ~(SumFunctionOnSet(f, s) <= SumFunctionOnSet(h, image(s)))
    BY <1>1
  <2>3. s # {}
    <3> SUFFICES ASSUME s = {} PROVE FALSE
      OBVIOUS
    <3>1. SumFunctionOnSet(f, s) = 0
      BY FS_EmptySet, SumIs
    <3>2. SumFunctionOnSet(h, image(s)) \in Nat
      BY <1>1, <1>2, <2>2
    <3> HIDE DEF image
    <3> QED BY <2>2, <3>1, <3>2
  <2>4. PICK y : y \in s
    BY <2>3
  <2> DEFINE r == s \ {y}
  <2>5. r \in SUBSET S /\ r \notin Bad
    BY <2>1, <2>2, <2>4, LessWithout
  <2>6. SumFunctionOnSet(f, r) <= SumFunctionOnSet(h, image(r))
    BY <2>5
  <2>7. SumFunctionOnSet(f, s) = f[y] + SumFunctionOnSet(f, r)
    BY <2>2, <2>4, SumRemove
  <2>8. image(s) \ {m[y]} = image(r) /\ m[y] \in image(s) /\ image(s) \in SUBSET T
    BY <2>2, <2>4
  <2>9. SumFunctionOnSet(h, image(s)) = h[m[y]] + SumFunctionOnSet(h, image(s) \ {m[y]})
    <3> HIDE DEF image
    <3> QED BY <2>8, SumRemove
  <2>10. /\ f[y] \in Nat /\ h[m[y]] \in Nat /\ f[y] <= h[m[y]]
         /\ SumFunctionOnSet(f, r) \in Nat /\ SumFunctionOnSet(h, image(r)) \in Nat
    BY <1>1, <1>2, <2>2, <2>4, <2>5
  <2>11. SumFunctionOnSet(h, image(s)) = h[m[y]] + SumFunctionOnSet(h, image(r))
    BY <2>8, <2>9
  <2> HIDE DEF image, r
  <2> QED BY <2>2, <2>6, <2>7, <2>10, <2>11
<1>4. SumFunctionOnSet(f, S) <= SumFunctionOnSet(h, image(S)) /\ image(S) \in SUBSET T
  <2>1. S \in SUBSET S
    OBVIOUS
  <2> QED BY <1>2, <1>3, <2>1
<1> HIDE DEF image
<1>5. T \in SUBSET T /\ S \in SUBSET S /\ \A x \in image(S) : h[x] <= h[x]
  <2>1. \A x \in T : h[x] \in Nat
    OBVIOUS
  <2> QED BY <1>4, <2>1
<1>6. SumFunctionOnSet(h, image(S)) <= SumFunctionOnSet(h, T)
  BY <1>4, <1>5, SumMonotone
<1> QED BY <1>1, <1>4, <1>5, <1>6

LEMMA CountsOnce == PoolInv => CountedOnce
<1> SUFFICES ASSUME PoolInv PROVE CountedOnce
  OBVIOUS
<1>1. \A i \in DOMAIN roster :
         /\ roster[i] \in dir /\ roster[i] \in Sub
         /\ roster[i].machine \in Machine /\ roster[i].usd \in Nat
         /\ roster[i].usd <= outlay[roster[i].machine]
  <2> SUFFICES ASSUME NEW i \in DOMAIN roster
               PROVE  /\ roster[i] \in dir /\ roster[i] \in Sub
                      /\ roster[i].machine \in Machine /\ roster[i].usd \in Nat
                      /\ roster[i].usd <= outlay[roster[i].machine]
    OBVIOUS
  <2>1. roster[i] \in given /\ roster[i].intact
    BY DEF PoolInv, GivenTyped, RosterHolds
  <2>2. roster[i] \in dir /\ roster[i] \in Sub
    BY <2>1 DEF PoolInv, GivenTyped
  <2> QED BY <2>2 DEF PoolInv, Submitting, Sub
<1>2. ASSUME NEW i \in DOMAIN roster, NEW j \in DOMAIN roster,
             roster[i].machine = roster[j].machine, roster[i].machine \notin forked
      PROVE  i = j
  <2>1. roster[i].tag = secret[roster[i].machine] /\ roster[j].tag = secret[roster[j].machine]
    BY <1>1, <1>2 DEF PoolInv, OneSecret
  <2> QED BY <1>2, <2>1 DEF PoolInv, RosterHolds
<1>3. ASSUME forked = {} PROVE Pooled <= SumFunctionOnSet(outlay, Machine)
  <2> DEFINE f == [i \in DOMAIN roster |-> roster[i].usd]
             m == [i \in DOMAIN roster |-> roster[i].machine]
  <2>1. f \in [DOMAIN roster -> Nat] /\ m \in [DOMAIN roster -> Machine] /\ DOMAIN f = DOMAIN roster
    BY <1>1
  <2>2. outlay \in [Machine -> Nat] /\ IsFiniteSet(Machine)
    BY PoolAssumption DEF PoolInv, Submitting
  <2>3. IsFiniteSet(DOMAIN roster)
    <3>1. DOMAIN roster = 1..Len(roster) /\ Len(roster) \in Nat
      BY DEF PoolInv, GivenTyped
    <3> QED BY <3>1, FS_Interval
  <2>4. \A i, j \in DOMAIN roster : m[i] = m[j] => i = j
    BY <1>2, <1>3
  <2>5. \A i \in DOMAIN roster : f[i] <= outlay[m[i]]
    BY <1>1
  <2>6. Pooled = SumFunctionOnSet(f, DOMAIN roster)
    BY <2>1 DEF Pooled, SumFunction
  <2> HIDE DEF f, m
  <2>7. SumFunctionOnSet(f, DOMAIN roster) <= SumFunctionOnSet(outlay, Machine)
    BY <2>1, <2>2, <2>3, <2>4, <2>5, SumOverImages
  <2> QED BY <2>6, <2>7
<1> QED BY <1>2, <1>3 DEF CountedOnce

LEMMA KeepsNewest == PoolInv => NewestOfEach
<1> SUFFICES ASSUME PoolInv, Read PROVE NewestOfEach
  BY DEF NewestOfEach
<1>1. /\ ToSet(roster) \cup ToSet(superseded) \cup refused = given
      /\ Len(roster) + Len(superseded) + Cardinality(refused) = Cardinality(given)
  <2>1. given \ todo = given
    BY DEF Read
  <2> QED BY <2>1 DEF PoolInv, RosterHolds
<1>2. \A c \in given : c.taken \in Int
  BY PoolAssumption DEF PoolInv, GivenTyped, Sub
<1>3. /\ \A i \in DOMAIN roster : roster[i] \in given
      /\ \A k \in DOMAIN superseded : superseded[k] \in given
  BY DEF PoolInv, GivenTyped
<1>4. ASSUME NEW i \in DOMAIN roster, NEW k \in DOMAIN superseded, superseded[k].tag = roster[i].tag
      PROVE  superseded[k].taken < roster[i].taken
  BY <1>4 DEF PoolInv, RosterHolds
<1>5. ASSUME refused = {}
      PROVE  ToSet(roster) = {c \in given : \A d \in given : d.tag = c.tag => d.taken <= c.taken}
  <2>1. ASSUME NEW i \in DOMAIN roster, NEW d \in given, d.tag = roster[i].tag
        PROVE  d.taken <= roster[i].taken
    <3>1. CASE d \in ToSet(roster)
      <4>1. PICK j \in DOMAIN roster : d = roster[j]
        BY <3>1 DEF ToSet
      <4>2. j = i
        BY <2>1, <4>1 DEF PoolInv, RosterHolds
      <4> QED BY <1>2, <4>1, <4>2
    <3>2. CASE d \in ToSet(superseded)
      <4>1. PICK k \in DOMAIN superseded : d = superseded[k]
        BY <3>2 DEF ToSet
      <4>2. d.taken < roster[i].taken /\ d.taken \in Int /\ roster[i].taken \in Int
        BY <1>2, <1>3, <1>4, <2>1, <4>1
      <4> QED BY <4>2
    <3> QED BY <1>1, <1>5, <3>1, <3>2
  <2>2. ASSUME NEW c \in given, \A d \in given : d.tag = c.tag => d.taken <= c.taken
        PROVE  c \in ToSet(roster)
    <3> SUFFICES ASSUME c \in ToSet(superseded) PROVE FALSE
      BY <1>1, <1>5
    <3>1. PICK k \in DOMAIN superseded : c = superseded[k]
      BY DEF ToSet
    <3>2. PICK i \in DOMAIN roster :
             roster[i].tag = superseded[k].tag /\ superseded[k].taken < roster[i].taken
      BY DEF PoolInv, RosterHolds
    <3>3. roster[i] \in given /\ roster[i].taken <= c.taken
      BY <1>3, <2>2, <3>1, <3>2
    <3>4. roster[i].taken \in Int /\ c.taken \in Int /\ c.taken < roster[i].taken
      BY <1>2, <3>1, <3>2, <3>3
    <3> QED BY <3>3, <3>4
  <2> QED BY <1>3, <2>1, <2>2 DEF ToSet
<1>6. \A i \in DOMAIN roster, x \in ToSet(superseded) : x.tag = roster[i].tag => x.taken < roster[i].taken
  BY <1>4 DEF ToSet
<1> QED BY <1>1, <1>5, <1>6 DEF NewestOfEach

\* For any machines, processes, rules and submissions: the pooled total counts no
\* machine twice, unless one wrote two secrets, and every file is in the roster as
\* the newest of its source, displaced by a newer one, or refused (Pool.Add,
\* contributorSecret).
THEOREM PooledAlwaysOnce == PoolSpec => []PooledOnce
<1>1. PoolInv /\ [PoolNext]_poolVars => PoolInv'
  <2> SUFFICES ASSUME PoolInv, [PoolNext]_poolVars PROVE PoolInv'
    OBVIOUS
  <2>1. CASE Contributing
    BY <2>1, MachineSteps DEF Contributing
  <2>2. CASE Published
    BY <2>2 DEF Published, world, PoolInv, Submitting, OneSecret, GivenTyped, RosterHolds
  <2>3. CASE UNCHANGED poolVars
    BY <2>3 DEF poolVars, PoolInv, Submitting, OneSecret, GivenTyped, RosterHolds
  <2> QED BY <2>1, <2>2, <2>3, PoolBegins, PoolAdds DEF PoolNext, Pooling
<1>2. PoolInv => PooledOnce
  <2>1. PoolInv => PoolTypeOK
    BY DEF PoolInv, Submitting, GivenTyped, PoolTypeOK
  <2> QED BY <2>1, CountsOnce, KeepsNewest DEF PooledOnce
<1> QED BY <1>1, <1>2, InitPool, PTL DEF PoolSpec

-----------------------------------------------------------------------------
(* The reader of a rollout log.                                            *)

\* A sum depends on what it adds up and on nothing else.
LEMMA SumAgrees ==
  ASSUME NEW T, IsFiniteSet(T), NEW f, NEW g, \A x \in T : f[x] = g[x]
  PROVE  SumFunctionOnSet(f, T) = SumFunctionOnSet(g, T)
<1> DEFINE Bad == {s \in SUBSET T : SumFunctionOnSet(f, s) # SumFunctionOnSet(g, s)}
<1>1. Bad = {}
  <2> SUFFICES ASSUME Bad # {} PROVE FALSE
    OBVIOUS
  <2>0. \A s \in SUBSET T : IsFiniteSet(s)
    BY FS_Subset
  <2>1. PICK s \in Bad : \A r \in Bad : Cardinality(s) <= Cardinality(r)
    <3>1. \A s \in Bad : IsFiniteSet(s)
      BY <2>0
    <3> HIDE DEF Bad
    <3> QED BY <3>1, SmallestSet
  <2>2. /\ IsFiniteSet(s) /\ s \in SUBSET T
        /\ SumFunctionOnSet(f, s) # SumFunctionOnSet(g, s)
    BY <2>0
  <2>3. /\ SumFunctionOnSet(f, s) = IF s = {} THEN 0 ELSE f[Pick(s)] + SumFunctionOnSet(f, s \ {Pick(s)})
        /\ SumFunctionOnSet(g, s) = IF s = {} THEN 0 ELSE g[Pick(s)] + SumFunctionOnSet(g, s \ {Pick(s)})
    BY <2>2, SumIs
  <2>4. s # {}
    BY <2>2, <2>3
  <2>5. Pick(s) \in s
    BY <2>4 DEF Pick
  <2>6. f[Pick(s)] = g[Pick(s)]
    BY <2>2, <2>5
  <2>7. s \ {Pick(s)} \in SUBSET T /\ s \ {Pick(s)} \notin Bad
    BY <2>1, <2>2, <2>5, LessWithout
  <2>8. SumFunctionOnSet(f, s \ {Pick(s)}) = SumFunctionOnSet(g, s \ {Pick(s)})
    BY <2>7
  <2> QED BY <2>2, <2>3, <2>6, <2>8
<1> QED BY <1>1

Row == [input : Nat, creation : Nat, read : Nat, output : Nat]
Inputs == [i \in DOMAIN made |-> made[i].input]
Cached == [i \in DOMAIN made |-> made[i].cached]
Outputs == [i \in DOMAIN made |-> made[i].output]
Broken == {i \in Good : \E j \in Good : Follows(i, j) /\ Collapses(made[j], made[i])}

LogTyped ==
    /\ written \in 0..MaxWritten /\ made \in Seq(Usage)
    /\ last \in Usage \cup {None} /\ (last = None <=> made = <<>>)
    /\ cumulative \in Nat /\ prevTotal \in Nat /\ reported \in Nat
    /\ repeated \in Nat /\ garbled \in Nat /\ counted \in Nat
    /\ reEmitted \in Nat /\ skipped \in Nat /\ unparsable \in Nat
    /\ billed \in Row /\ breaks \in Seq([line : Int, cold : Int])
    /\ rebased \in BOOLEAN /\ seenTotal \in BOOLEAN /\ straddled \in BOOLEAN
    /\ seenTotal <=> made # <<>>
    /\ seenTotal => prevTotal = reported
    /\ ~rebased => reported = cumulative

\* What is billed and counted so far, and where the cache stood at the last
\* response that could be used.
Counts ==
    /\ counted + reEmitted + skipped = Len(made) + repeated + garbled
    /\ counted = Cardinality(Good) /\ unparsable = garbled
Bills ==
    /\ PromptOf(billed) = SumFunctionOnSet(Inputs, Good)
    /\ billed.read = SumFunctionOnSet(Cached, Good)
    /\ billed.output = SumFunctionOnSet(Outputs, Good)
    /\ ~rebased /\ Good = DOMAIN made => reported = Total(billed)
Breaks ==
    /\ Len(breaks) = Cardinality(Broken)
    /\ Good = {} => prevShare = NoShare
    /\ Good # {} => \E j \in Good :
          /\ \A k \in Good : k <= j
          /\ prevShare = [read |-> made[j].cached, prompt |-> made[j].input]
RolloutInv == LogTyped /\ (~straddled => Counts /\ Bills /\ Breaks)

LEMMA UsageFields ==
  ASSUME NEW u \in Usage
  PROVE  /\ u.input \in Nat /\ u.cached \in Nat /\ u.write \in Nat /\ u.output \in Nat
         /\ u.total \in Nat /\ u # None
         /\ usable(u) => /\ u.input > 0 /\ u.total = u.input + u.output
                         /\ exclusive(u) \in Row /\ PromptOf(exclusive(u)) = u.input
                         /\ exclusive(u).read = u.cached /\ exclusive(u).output = u.output
<1>1. /\ u.input \in Nat /\ u.cached \in Nat /\ u.write \in Nat /\ u.output \in Nat
      /\ u.total \in Nat
      /\ usable(u) => u.input > 0 /\ u.total = u.input + u.output
  BY UsageAssumption
<1>2. u # None
  BY <1>1 DEF None
<1>3. ASSUME usable(u)
      PROVE  /\ exclusive(u) \in Row /\ PromptOf(exclusive(u)) = u.input
             /\ exclusive(u).read = u.cached /\ exclusive(u).output = u.output
  <2>1. u.input - u.cached - u.write \in Nat
    BY <1>1, <1>3 DEF usable
  <2> QED BY <1>1, <2>1 DEF exclusive, Row, PromptOf
<1> QED BY <1>1, <1>2, <1>3

LEMMA GoodFacts ==
  ASSUME LogTyped
  PROVE  /\ DOMAIN made = 1..Len(made) /\ Len(made) \in Nat /\ IsFiniteSet(DOMAIN made)
         /\ Good \in SUBSET (DOMAIN made) /\ IsFiniteSet(Good) /\ Cardinality(Good) \in Nat
         /\ Broken \in SUBSET Good /\ IsFiniteSet(Broken)
         /\ \A i \in DOMAIN made : made[i] \in Usage
<1>1. DOMAIN made = 1..Len(made) /\ Len(made) \in Nat /\ \A i \in DOMAIN made : made[i] \in Usage
  BY DEF LogTyped
<1>2. IsFiniteSet(DOMAIN made)
  BY <1>1, FS_Interval
<1>3. Good \in SUBSET (DOMAIN made) /\ Broken \in SUBSET Good
  BY DEF Good, Broken
<1> QED BY <1>1, <1>2, <1>3, FS_Subset, FS_CardinalityType

\* One more response, at the end.
LEMMA OneMore ==
  ASSUME LogTyped, NEW u \in Usage, made' = Append(made, u)
  PROVE  /\ Len(made') = Len(made) + 1 /\ made' # <<>> /\ made' \in Seq(Usage)
         /\ DOMAIN made' = DOMAIN made \cup {Len(made) + 1} /\ Len(made) + 1 \notin DOMAIN made
         /\ made'[Len(made) + 1] = u
         /\ \A i \in DOMAIN made : made'[i] = made[i] /\ i < Len(made) + 1 /\ i \in Nat
         /\ Good' = IF usable(u) THEN Good \cup {Len(made) + 1} ELSE Good
<1>1. /\ Len(made') = Len(made) + 1 /\ made' # <<>> /\ made' \in Seq(Usage)
      /\ DOMAIN made' = DOMAIN made \cup {Len(made) + 1} /\ Len(made) + 1 \notin DOMAIN made
      /\ made'[Len(made) + 1] = u
      /\ \A i \in DOMAIN made : made'[i] = made[i] /\ i < Len(made) + 1 /\ i \in Nat
  <2>1. made \in Seq(Usage)
    BY DEF LogTyped
  <2> QED BY <2>1
<1>2. Good' = IF usable(u) THEN Good \cup {Len(made) + 1} ELSE Good
  BY <1>1 DEF Good
<1> QED BY <1>1, <1>2

\* What it adds to a sum.
LEMMA OneMoreAdds ==
  ASSUME LogTyped, NEW u \in Usage, made' = Append(made, u),
         NEW f \in [DOMAIN made -> Nat], NEW g \in [DOMAIN made' -> Nat],
         \A i \in DOMAIN made : g[i] = f[i]
  PROVE  SumFunctionOnSet(g, Good') =
            IF usable(u) THEN SumFunctionOnSet(f, Good) + g[Len(made) + 1]
            ELSE SumFunctionOnSet(f, Good)
<1> DEFINE n == Len(made) + 1
<1>1. /\ DOMAIN made' = DOMAIN made \cup {n} /\ n \notin DOMAIN made
      /\ Good' = IF usable(u) THEN Good \cup {n} ELSE Good
  BY OneMore
<1>2. IsFiniteSet(Good) /\ Good \in SUBSET (DOMAIN made) /\ IsFiniteSet(DOMAIN made)
  BY GoodFacts
<1> HIDE DEF n
<1>3. SumFunctionOnSet(g, Good) = SumFunctionOnSet(f, Good)
  <2>1. \A i \in Good : g[i] = f[i]
    BY <1>2
  <2> QED BY <1>2, <2>1, SumAgrees
<1>4. CASE usable(u)
  <2>1. IsFiniteSet(DOMAIN made')
    <3>1. IsFiniteSet(DOMAIN made \cup {n})
      BY <1>2, FS_AddElement
    <3> QED BY <1>1, <3>1
  <2>2. Good' \in SUBSET (DOMAIN made') /\ n \in Good' /\ Good' \ {n} = Good /\ g[n] \in Nat
    BY <1>1, <1>2, <1>4
  <2>3. SumFunctionOnSet(g, Good') = g[n] + SumFunctionOnSet(g, Good' \ {n})
    BY <2>1, <2>2, SumRemove
  <2>4. SumFunctionOnSet(f, Good) \in Nat
    BY <1>2, SumType
  <2>5. SumFunctionOnSet(g, Good') = g[n] + SumFunctionOnSet(f, Good)
    BY <1>3, <2>2, <2>3
  <2> QED BY <1>4, <2>2, <2>4, <2>5 DEF n
<1>5. CASE ~usable(u)
  BY <1>1, <1>3, <1>5
<1> QED BY <1>4, <1>5

\* Only the new response can come cold after a warm one.
LEMMA OneMoreBreak ==
  ASSUME LogTyped, NEW u \in Usage, made' = Append(made, u)
  PROVE  Broken' = IF usable(u) /\ \E j \in Good : (\A k \in Good : k <= j) /\ Collapses(made[j], u)
                   THEN Broken \cup {Len(made) + 1} ELSE Broken
<1> DEFINE n == Len(made) + 1
           G == Good'
           m == made'
           Ends(j) == \A k \in Good : k <= j
           After(i, j) == j < i /\ \A k \in G : ~(j < k /\ k < i)
<1>1. /\ \A i \in DOMAIN made : m[i] = made[i] /\ i < n /\ i \in Nat
      /\ m[n] = u /\ n \notin DOMAIN made /\ n \in Nat
      /\ G = IF usable(u) THEN Good \cup {n} ELSE Good
      /\ Good \in SUBSET (DOMAIN made)
  BY OneMore, GoodFacts
<1>2. Broken' = {i \in G : \E j \in G : After(i, j) /\ Collapses(m[j], m[i])}
  BY DEF Broken, Follows, Collapses
<1>3. Broken = {i \in Good : \E j \in Good : Follows(i, j) /\ Collapses(made[j], made[i])}
  BY DEF Broken
<1> HIDE DEF n, G, m
<1>4. ASSUME NEW i \in Good, NEW j \in Good PROVE After(i, j) <=> Follows(i, j)
  <2>1. \A k \in G : k \in Good \/ k = n
    BY <1>1
  <2>2. Good \subseteq G /\ i < n /\ i \in Nat /\ n \in Nat
    BY <1>1
  <2> QED BY <2>1, <2>2 DEF Follows
<1>5. ASSUME NEW j \in Good, usable(u) PROVE After(n, j) <=> Ends(j)
  <2>1. j < n /\ j \in Nat /\ n \in Nat /\ \A k \in Good : k < n /\ k \in Nat
    BY <1>1
  <2>2. G = Good \cup {n}
    BY <1>1, <1>5
  <2> QED BY <2>1, <2>2
<1>6. ASSUME NEW i \in Good PROVE ~After(i, n)
  BY <1>1
<1>7. ~After(n, n)
  BY <1>1
<1>8. \A i \in Good : m[i] = made[i]
  BY <1>1
<1> HIDE DEF Ends, After
<1>9. ASSUME NEW i \in Good PROVE i \in Broken' <=> i \in Broken
  <2>1. i \in G /\ Good \subseteq G /\ \A j \in G : j \in Good \/ j = n
    BY <1>1
  <2>2. i \in Broken' <=> \E j \in G : After(i, j) /\ Collapses(m[j], m[i])
    BY <1>2, <2>1
  <2>3. i \in Broken <=> \E j \in Good : Follows(i, j) /\ Collapses(made[j], made[i])
    BY <1>3
  <2>4. ASSUME NEW j \in G, After(i, j), Collapses(m[j], m[i]) PROVE i \in Broken
    <3>1. j \in Good
      BY <1>6, <2>1, <2>4
    <3>2. Follows(i, j) /\ m[i] = made[i] /\ m[j] = made[j]
      BY <1>4, <1>8, <2>4, <3>1
    <3> QED BY <2>3, <2>4, <3>1, <3>2
  <2>5. ASSUME NEW j \in Good, Follows(i, j), Collapses(made[j], made[i]) PROVE i \in Broken'
    <3>1. After(i, j) /\ m[i] = made[i] /\ m[j] = made[j] /\ j \in G
      BY <1>4, <1>8, <2>1, <2>5
    <3>2. Collapses(m[j], m[i])
      BY <2>5, <3>1
    <3> QED BY <2>2, <3>1, <3>2
  <2> QED BY <2>2, <2>3, <2>4, <2>5
<1>10. ASSUME usable(u) PROVE n \in Broken' <=> \E j \in Good : Ends(j) /\ Collapses(made[j], u)
  <2>1. n \in G /\ Good \subseteq G /\ \A j \in G : j \in Good \/ j = n
    BY <1>1, <1>10
  <2>2. n \in Broken' <=> \E j \in G : After(n, j) /\ Collapses(m[j], m[n])
    BY <1>2, <2>1
  <2>3. m[n] = u
    BY <1>1
  <2>4. ASSUME NEW j \in G, After(n, j), Collapses(m[j], m[n])
        PROVE  \E x \in Good : Ends(x) /\ Collapses(made[x], u)
    <3>1. j \in Good
      BY <1>7, <2>1, <2>4
    <3>2. Ends(j) /\ m[j] = made[j]
      BY <1>5, <1>8, <1>10, <2>4, <3>1
    <3> QED BY <2>3, <2>4, <3>1, <3>2
  <2>5. ASSUME NEW j \in Good, Ends(j), Collapses(made[j], u) PROVE n \in Broken'
    <3>1. After(n, j) /\ m[j] = made[j] /\ j \in G
      BY <1>5, <1>8, <1>10, <2>1, <2>5
    <3>2. Collapses(m[j], m[n])
      BY <2>3, <2>5, <3>1
    <3> QED BY <2>2, <3>1, <3>2
  <2> QED BY <2>2, <2>4, <2>5
<1>11. Broken' \subseteq G /\ Broken \subseteq Good
  BY <1>2, <1>3
<1> DEFINE Colder == \E j \in Good : Ends(j) /\ Collapses(made[j], u)
<1>12. Broken' = IF usable(u) /\ Colder THEN Broken \cup {n} ELSE Broken
  <2> HIDE DEF Colder
  <2>0. usable(u) => (n \in Broken' <=> Colder)
    BY <1>10 DEF Colder
  <2> DEFINE B == Broken'
  <2> HIDE DEF B
  <2>1. CASE usable(u)
    <3>1. G = Good \cup {n} /\ n \notin Good
      BY <1>1, <2>1
    <3>2. /\ \A i \in Good : i \in B <=> i \in Broken
          /\ B \subseteq Good \cup {n} /\ Broken \subseteq Good /\ (n \in B <=> Colder)
      BY <1>9, <1>11, <2>0, <2>1, <3>1 DEF B
    <3>3. B = IF Colder THEN Broken \cup {n} ELSE Broken
      <4>1. CASE Colder
        BY <3>1, <3>2, <4>1
      <4>2. CASE ~Colder
        <5>1. n \notin B
          BY <3>2, <4>2
        <5>2. \A i : i \in B <=> i \in Broken
          BY <3>2, <5>1
        <5> QED BY <4>2, <5>2
      <4> QED BY <4>1, <4>2
    <3> QED BY <2>1, <3>3 DEF B
  <2>2. CASE ~usable(u)
    <3>1. G = Good
      BY <1>1, <2>2
    <3> QED BY <1>9, <1>11, <2>2, <3>1
  <2> QED BY <2>1, <2>2
<1> QED BY <1>12 DEF n, Ends

LEMMA SameResponses ==
  ASSUME UNCHANGED made
  PROVE  UNCHANGED <<Good, Inputs, Cached, Outputs, Broken>>
<1>1. UNCHANGED <<Good, Inputs, Cached, Outputs>>
  BY DEF Good, Inputs, Cached, Outputs
<1>2. UNCHANGED Broken
  BY <1>1 DEF Broken, Follows, Collapses
<1> QED BY <1>1, <1>2

LEMMA InitRollout == RolloutInit => RolloutInv
<1> SUFFICES ASSUME RolloutInit PROVE RolloutInv
  OBVIOUS
<1>1. LogTyped
  <2>1. /\ made = <<>> /\ breaks = <<>> /\ last = None /\ <<>> \in Seq(Usage)
        /\ <<>> \in Seq([line : Int, cold : Int]) /\ billed \in Row
    BY DEF RolloutInit, Nothing, Row
  <2>2. /\ written = 0 /\ MaxWritten \in Nat /\ cumulative = 0 /\ prevTotal = 0 /\ reported = 0
        /\ repeated = 0 /\ garbled = 0 /\ counted = 0 /\ reEmitted = 0 /\ skipped = 0
        /\ unparsable = 0 /\ rebased = FALSE /\ seenTotal = FALSE /\ straddled = FALSE
    BY UsageAssumption DEF RolloutInit
  <2>3. 0 \in 0..MaxWritten /\ 0 \in Nat
    BY <2>2
  <2> QED BY <2>1, <2>2, <2>3, Zenon DEF LogTyped
<1>2. Good = {} /\ Broken = {} /\ Cardinality({}) = 0 /\ IsFiniteSet({})
  BY FS_EmptySet DEF RolloutInit, Good, Broken
<1>3. \A f : SumFunctionOnSet(f, {}) = 0
  BY <1>2, SumIs
<1>4. Counts
  BY <1>2 DEF RolloutInit, Counts
<1>5. Bills
  BY <1>2, <1>3 DEF RolloutInit, Bills, Nothing, PromptOf, Total
<1>6. Breaks
  BY <1>2 DEF RolloutInit, Breaks
<1> QED BY <1>1, <1>4, <1>5, <1>6 DEF RolloutInv

\* What a token_count may do to the books.
LEMMA TokenCount ==
  ASSUME LogTyped, NEW u \in Usage, NEW total, tokenCount(u, total), written' \in Nat
  PROVE  /\ prevTotal' = total /\ seenTotal' = TRUE /\ reported' = total
         /\ UNCHANGED <<rebased, unparsable>>
         /\ \/ /\ ~usable(u) /\ skipped' = skipped + 1
               /\ UNCHANGED <<billed, counted, reEmitted, breaks, prevShare>>
            \/ /\ usable(u) /\ ~advanced(u, total) /\ reEmitted' = reEmitted + 1
               /\ UNCHANGED <<billed, counted, skipped, breaks, prevShare>>
            \/ /\ usable(u) /\ advanced(u, total)
               /\ billed' = add(billed, exclusive(u)) /\ counted' = counted + 1
               /\ observeCache(exclusive(u)) /\ UNCHANGED <<reEmitted, skipped>>
         /\ billed' \in Row /\ breaks' \in Seq([line : Int, cold : Int])
         /\ counted' \in Nat /\ reEmitted' \in Nat /\ skipped' \in Nat
<1>1. /\ prevTotal' = total /\ seenTotal' = TRUE /\ reported' = total
      /\ UNCHANGED <<rebased, unparsable>>
  BY DEF tokenCount
<1>2. \/ /\ ~usable(u) /\ skipped' = skipped + 1
         /\ UNCHANGED <<billed, counted, reEmitted, breaks, prevShare>>
      \/ /\ usable(u) /\ ~advanced(u, total) /\ reEmitted' = reEmitted + 1
         /\ UNCHANGED <<billed, counted, skipped, breaks, prevShare>>
      \/ /\ usable(u) /\ advanced(u, total)
         /\ billed' = add(billed, exclusive(u)) /\ counted' = counted + 1
         /\ observeCache(exclusive(u)) /\ UNCHANGED <<reEmitted, skipped>>
  BY DEF tokenCount
<1>3. billed' \in Row /\ breaks' \in Seq([line : Int, cold : Int])
      /\ counted' \in Nat /\ reEmitted' \in Nat /\ skipped' \in Nat
  <2>1. CASE UNCHANGED <<billed, breaks>>
    <3>1. /\ billed \in Row /\ breaks \in Seq([line : Int, cold : Int])
          /\ counted \in Nat /\ reEmitted \in Nat /\ skipped \in Nat
      BY DEF LogTyped
    <3>2. /\ counted' = counted \/ counted' = counted + 1
          /\ reEmitted' = reEmitted \/ reEmitted' = reEmitted + 1
          /\ skipped' = skipped \/ skipped' = skipped + 1
      BY <1>2
    <3> QED BY <2>1, <3>1, <3>2
  <2>2. CASE usable(u) /\ billed' = add(billed, exclusive(u)) /\ observeCache(exclusive(u))
             /\ counted' = counted + 1 /\ UNCHANGED <<reEmitted, skipped>>
    <3>1. exclusive(u) \in Row /\ billed \in Row
      BY <2>2, UsageFields DEF LogTyped
    <3>2. billed' \in Row
      BY <2>2, <3>1 DEF add, Row
    <3>3. breaks' = breaks \/ breaks' = Append(breaks, [line |-> written', cold |-> exclusive(u).input])
      BY <2>2 DEF observeCache
    <3>4. [line |-> written', cold |-> exclusive(u).input] \in [line : Int, cold : Int]
      BY <3>1 DEF Row
    <3>5. breaks' \in Seq([line : Int, cold : Int])
      <4>1. breaks \in Seq([line : Int, cold : Int])
        BY DEF LogTyped
      <4> DEFINE R == [line : Int, cold : Int]
                 e == [line |-> written', cold |-> exclusive(u).input]
      <4>2. breaks \in Seq(R) /\ e \in R /\ (breaks' = breaks \/ breaks' = Append(breaks, e))
        BY <3>3, <3>4, <4>1
      <4> HIDE DEF R, e
      <4>3. Append(breaks, e) \in Seq(R)
        BY <4>2
      <4>4. breaks' \in Seq(R)
        BY <4>2, <4>3, Zenon
      <4> QED BY <4>4 DEF R
    <3>6. counted \in Nat /\ reEmitted \in Nat /\ skipped \in Nat
      BY DEF LogTyped
    <3> QED BY <2>2, <3>2, <3>5, <3>6
  <2> QED BY <1>2, <2>1, <2>2
<1> QED BY <1>1, <1>2, <1>3

\* A record that follows no response is not billed.
LEMMA RepeatStep == ASSUME RolloutInv, Repeat PROVE RolloutInv'
<1>1. /\ written < MaxWritten /\ written' = written + 1 /\ last # None /\ repeated' = repeated + 1
      /\ straddled' = (straddled \/ cumulative # prevTotal)
      /\ UNCHANGED <<made, last, cumulative, garbled>> /\ tokenCount(last, cumulative)
  BY DEF Repeat, Line
<1>2. LogTyped /\ last \in Usage /\ seenTotal /\ written' \in Nat
  BY <1>1, UsageAssumption DEF RolloutInv, LogTyped
<1>3. /\ UNCHANGED <<rebased, unparsable>>
      /\ prevTotal' = cumulative /\ seenTotal' = TRUE /\ reported' = cumulative
      /\ \/ /\ skipped' = skipped + 1
            /\ UNCHANGED <<billed, counted, reEmitted, breaks, prevShare>>
         \/ /\ reEmitted' = reEmitted + 1
            /\ UNCHANGED <<billed, counted, skipped, breaks, prevShare>>
         \/ advanced(last, cumulative)
  BY <1>1 DEF tokenCount
<1>4. billed' \in Row /\ breaks' \in Seq([line : Int, cold : Int])
      /\ counted' \in Nat /\ reEmitted' \in Nat /\ skipped' \in Nat
  BY <1>1, <1>2, TokenCount
<1>5. LogTyped'
  BY <1>1, <1>2, <1>3, <1>4, UsageAssumption DEF LogTyped
<1>6. ASSUME ~straddled' PROVE Counts' /\ Bills' /\ Breaks'
  <2>1. ~straddled /\ cumulative = prevTotal
    BY <1>1, <1>6 DEF RolloutInv, LogTyped
  <2>2. Counts /\ Bills /\ Breaks /\ prevTotal = reported
    BY <1>2, <2>1 DEF RolloutInv, LogTyped
  <2>3. ~advanced(last, cumulative)
    BY <1>2, <2>1 DEF advanced
  <2>4. UNCHANGED <<billed, counted, breaks, prevShare>>
        /\ reEmitted' + skipped' = reEmitted + skipped + 1
        /\ reEmitted' \in Nat /\ skipped' \in Nat
    <3>1. reEmitted \in Nat /\ skipped \in Nat
      BY <1>2 DEF LogTyped
    <3>2. CASE skipped' = skipped + 1 /\ UNCHANGED <<billed, counted, reEmitted, breaks, prevShare>>
      BY <3>1, <3>2
    <3>3. CASE reEmitted' = reEmitted + 1 /\ UNCHANGED <<billed, counted, skipped, breaks, prevShare>>
      BY <3>1, <3>3
    <3> QED BY <1>3, <2>3, <3>2, <3>3
  <2>5. UNCHANGED <<Good, Inputs, Cached, Outputs, Broken>>
    BY <1>1, SameResponses
  <2>6. Counts'
    <3>1. Len(made) \in Nat /\ repeated \in Nat /\ garbled \in Nat /\ counted \in Nat
          /\ reEmitted \in Nat /\ skipped \in Nat
      BY <1>2 DEF LogTyped
    <3>2. /\ counted + reEmitted + skipped = Len(made) + repeated + garbled
          /\ counted = Cardinality(Good) /\ unparsable = garbled
      BY <2>2 DEF Counts
    <3>3. /\ Len(made') = Len(made) /\ repeated' = repeated + 1 /\ garbled' = garbled
          /\ counted' = counted /\ unparsable' = unparsable
          /\ Cardinality(Good') = Cardinality(Good)
      BY <1>1, <1>3, <2>4, <2>5
    <3>4. counted + reEmitted' + skipped' = Len(made) + (repeated + 1) + garbled
      <4>1. reEmitted' \in Nat /\ skipped' \in Nat /\ reEmitted' + skipped' = reEmitted + skipped + 1
        BY <2>4
      <4>2. PICK d \in Nat, e \in Nat : d = reEmitted' /\ e = skipped' /\ d + e = reEmitted + skipped + 1
        BY <4>1
      <4>3. d + e = reEmitted + skipped + 1
        BY <4>2
      <4>4. counted + reEmitted + skipped = Len(made) + repeated + garbled
        BY <3>2
      <4>5. counted + d + e = Len(made) + (repeated + 1) + garbled
        BY <3>1, <4>3, <4>4
      <4> QED BY <4>2, <4>5
    <3> QED BY <3>2, <3>3, <3>4 DEF Counts
  <2>7. Bills'
    BY <1>1, <1>3, <2>1, <2>2, <2>4, <2>5 DEF Bills, PromptOf, Total
  <2>8. Breaks'
    BY <1>1, <2>2, <2>4, <2>5 DEF Breaks
  <2> QED BY <2>6, <2>7, <2>8
<1> QED BY <1>5, <1>6 DEF RolloutInv

\* A response is billed when its record comes, and once.
LEMMA TurnStep ==
  ASSUME RolloutInv, NEW u \in Usage, Turn(u)
  PROVE  RolloutInv'
<1>1. /\ written < MaxWritten /\ written' = written + 1
      /\ made' = Append(made, u) /\ last' = u /\ cumulative' = cumulative + u.total
      /\ straddled' = (straddled \/ (rebased /\ seenTotal /\ cumulative' = prevTotal))
      /\ tokenCount(u, cumulative') /\ UNCHANGED <<repeated, garbled>>
  BY DEF Turn, Line
<1>2. /\ LogTyped /\ written' \in Nat /\ cumulative' \in Nat /\ written' \in 0..MaxWritten
      /\ u.total \in Nat /\ u # None
  <2>1. LogTyped /\ written \in 0..MaxWritten /\ MaxWritten \in Nat /\ cumulative \in Nat
    BY UsageAssumption DEF RolloutInv, LogTyped
  <2>2. u.total \in Nat /\ u # None
    BY UsageFields
  <2> QED BY <1>1, <2>1, <2>2
<1>3. /\ prevTotal' = cumulative' /\ seenTotal' = TRUE /\ reported' = cumulative'
      /\ rebased' = rebased /\ unparsable' = unparsable
  BY <1>1 DEF tokenCount
<1>4. /\ billed' \in Row /\ breaks' \in Seq([line : Int, cold : Int])
      /\ counted' \in Nat /\ reEmitted' \in Nat /\ skipped' \in Nat
  BY <1>1, <1>2, TokenCount
<1>5. /\ Len(made') = Len(made) + 1 /\ made' # <<>> /\ made' \in Seq(Usage)
      /\ DOMAIN made' = DOMAIN made \cup {Len(made) + 1} /\ Len(made) + 1 \notin DOMAIN made
      /\ made'[Len(made) + 1] = u
      /\ \A i \in DOMAIN made : made'[i] = made[i] /\ i < Len(made) + 1 /\ i \in Nat
      /\ Good' = IF usable(u) THEN Good \cup {Len(made) + 1} ELSE Good
  BY <1>1, <1>2, OneMore
<1>6. LogTyped'
  <2>1. /\ repeated' \in Nat /\ garbled' \in Nat /\ unparsable' \in Nat
        /\ rebased' \in BOOLEAN /\ straddled' \in BOOLEAN
    BY <1>1, <1>2, <1>3 DEF LogTyped
  <2> QED BY <1>1, <1>2, <1>3, <1>4, <1>5, <2>1 DEF LogTyped
<1>7. ASSUME ~straddled' PROVE Counts' /\ Bills' /\ Breaks'
  <2>1. ~straddled /\ ~(rebased /\ seenTotal /\ cumulative' = prevTotal)
    BY <1>1, <1>7 DEF RolloutInv, LogTyped
  <2>2. Counts /\ Bills /\ Breaks
    BY <2>1 DEF RolloutInv
  <2>3. usable(u) => advanced(u, cumulative')
    <3> SUFFICES ASSUME usable(u), seenTotal, cumulative' = prevTotal PROVE FALSE
      BY DEF advanced
    <3>1. ~rebased /\ cumulative = prevTotal /\ cumulative \in Nat
      BY <1>2, <2>1 DEF LogTyped
    <3>2. u.total \in Nat /\ u.total > 0
      <4>1. u.input \in Nat /\ u.output \in Nat /\ u.input > 0 /\ u.total = u.input + u.output
        BY UsageFields
      <4> QED BY <4>1
    <3>3. cumulative = cumulative + u.total
      BY <1>1, <3>1
    <3> QED BY <3>1, <3>2, <3>3
  <2>4. \/ /\ ~usable(u) /\ skipped' = skipped + 1
           /\ UNCHANGED <<billed, counted, reEmitted, breaks, prevShare>>
        \/ /\ usable(u)
           /\ billed' = add(billed, exclusive(u)) /\ counted' = counted + 1
           /\ observeCache(exclusive(u)) /\ UNCHANGED <<reEmitted, skipped>>
    BY <1>1, <2>3 DEF tokenCount
  <2>5. /\ Len(made) \in Nat /\ IsFiniteSet(DOMAIN made) /\ Good \in SUBSET (DOMAIN made)
        /\ IsFiniteSet(Good) /\ Cardinality(Good) \in Nat
        /\ Broken \in SUBSET Good /\ IsFiniteSet(Broken)
        /\ \A i \in DOMAIN made : made[i] \in Usage
    BY <1>2, GoodFacts
  <2>6. Counts'
    <3>1. /\ repeated \in Nat /\ garbled \in Nat /\ counted \in Nat
          /\ reEmitted \in Nat /\ skipped \in Nat
      BY <1>2 DEF LogTyped
    <3>2. /\ counted + reEmitted + skipped = Len(made) + repeated + garbled
          /\ counted = Cardinality(Good) /\ unparsable = garbled
      BY <2>2 DEF Counts
    <3>3. counted' = Cardinality(Good')
      <4>1. CASE ~usable(u)
        BY <1>5, <2>4, <3>2, <4>1
      <4>2. CASE usable(u)
        <5>1. Len(made) + 1 \notin Good /\ Good' = Good \cup {Len(made) + 1}
          BY <1>5, <2>5, <4>2
        <5>2. Cardinality(Good \cup {Len(made) + 1}) = Cardinality(Good) + 1
          BY <2>5, <5>1, FS_AddElement
        <5>3. counted' = Cardinality(Good) + 1
          BY <2>4, <3>2, <4>2
        <5> QED BY <5>1, <5>2, <5>3
      <4> QED BY <4>1, <4>2
    <3>4. counted' + reEmitted' + skipped' = Len(made') + repeated' + garbled'
      <4>1. PICK n \in Nat : n = Len(made)
        BY <2>5
      <4>2. counted + reEmitted + skipped = n + repeated + garbled
        BY <3>2, <4>1
      <4>3. Len(made') = n + 1 /\ repeated' = repeated /\ garbled' = garbled
        BY <1>1, <1>5, <4>1
      <4>4. /\ (counted + 1) + reEmitted + skipped = (n + 1) + repeated + garbled
            /\ counted + reEmitted + (skipped + 1) = (n + 1) + repeated + garbled
        BY <3>1, <4>2
      <4>5. CASE ~usable(u)
        <5>1. skipped' = skipped + 1 /\ counted' = counted /\ reEmitted' = reEmitted
          BY <2>4, <4>5
        <5> QED BY <4>3, <4>4, <5>1
      <4>6. CASE usable(u)
        <5>1. skipped' = skipped /\ counted' = counted + 1 /\ reEmitted' = reEmitted
          BY <2>4, <4>6
        <5> QED BY <4>3, <4>4, <5>1
      <4> QED BY <4>5, <4>6
    <3>5. unparsable' = garbled'
      BY <1>1, <1>3, <3>2
    <3> QED BY <3>3, <3>4, <3>5 DEF Counts
  <2>7. Bills'
    <3>0. \A i \in DOMAIN made' : made'[i] \in Usage
      BY <1>5, <2>5
    <3> DEFINE n == Len(made) + 1
               ni == Inputs'
               nc == Cached'
               no == Outputs'
    <3>1. /\ Inputs \in [DOMAIN made -> Nat] /\ Cached \in [DOMAIN made -> Nat]
          /\ Outputs \in [DOMAIN made -> Nat]
      BY <2>5, UsageFields DEF Inputs, Cached, Outputs
    <3>2. /\ ni \in [DOMAIN made' -> Nat] /\ nc \in [DOMAIN made' -> Nat]
          /\ no \in [DOMAIN made' -> Nat]
      BY <3>0, UsageFields DEF Inputs, Cached, Outputs
    <3>3. \A i \in DOMAIN made : ni[i] = Inputs[i] /\ nc[i] = Cached[i] /\ no[i] = Outputs[i]
      BY <1>5 DEF Inputs, Cached, Outputs
    <3>4. ni[n] = u.input /\ nc[n] = u.cached /\ no[n] = u.output
      BY <1>5 DEF Inputs, Cached, Outputs
    <3>5. ni = Inputs' /\ nc = Cached' /\ no = Outputs'
      OBVIOUS
    <3>adds. ASSUME NEW f \in [DOMAIN made -> Nat], NEW g \in [DOMAIN made' -> Nat],
                  \A i \in DOMAIN made : g[i] = f[i]
           PROVE  SumFunctionOnSet(g, Good') =
                     IF usable(u) THEN SumFunctionOnSet(f, Good) + g[Len(made) + 1]
                     ELSE SumFunctionOnSet(f, Good)
      BY <1>1, <1>2, <3>adds, OneMoreAdds
    <3> HIDE DEF ni, nc, no
    <3>6. SumFunctionOnSet(ni, Good') = IF usable(u) THEN SumFunctionOnSet(Inputs, Good) + u.input
                                        ELSE SumFunctionOnSet(Inputs, Good)
      BY <3>1, <3>2, <3>3, <3>4, <3>adds
    <3>7. SumFunctionOnSet(nc, Good') = IF usable(u) THEN SumFunctionOnSet(Cached, Good) + u.cached
                                        ELSE SumFunctionOnSet(Cached, Good)
      BY <3>1, <3>2, <3>3, <3>4, <3>adds
    <3>8. SumFunctionOnSet(no, Good') = IF usable(u) THEN SumFunctionOnSet(Outputs, Good) + u.output
                                        ELSE SumFunctionOnSet(Outputs, Good)
      BY <3>1, <3>2, <3>3, <3>4, <3>adds
    <3>9. /\ PromptOf(billed) = SumFunctionOnSet(Inputs, Good)
          /\ billed.read = SumFunctionOnSet(Cached, Good)
          /\ billed.output = SumFunctionOnSet(Outputs, Good)
          /\ ~rebased /\ Good = DOMAIN made => reported = Total(billed)
      BY <2>2 DEF Bills
    <3>10. CASE ~usable(u)
      <4>1. billed' = billed /\ Good' = Good /\ Good' # DOMAIN made'
        BY <1>5, <2>4, <2>5, <3>10
      <4>2. PromptOf(billed') = SumFunctionOnSet(ni, Good') /\ billed'.read = SumFunctionOnSet(nc, Good')
            /\ billed'.output = SumFunctionOnSet(no, Good')
        BY <3>6, <3>7, <3>8, <3>9, <3>10, <4>1
      <4> QED BY <3>5, <4>1, <4>2 DEF Bills, PromptOf
    <3>11. CASE usable(u)
      <4> DEFINE e == exclusive(u)
      <4>1. /\ billed' = add(billed, e) /\ billed \in Row /\ e \in Row
            /\ PromptOf(e) = u.input /\ e.read = u.cached /\ e.output = u.output
            /\ u.total = u.input + u.output
            /\ u.input \in Nat /\ u.output \in Nat
        BY <1>2, <2>4, <3>11, UsageFields DEF LogTyped
      <4> HIDE DEF e
      <4>2. /\ PromptOf(add(billed, e)) = PromptOf(billed) + PromptOf(e)
            /\ add(billed, e).read = billed.read + e.read
            /\ add(billed, e).output = billed.output + e.output
            /\ Total(add(billed, e)) = Total(billed) + (PromptOf(e) + e.output)
            /\ Total(billed) \in Nat
        BY <4>1 DEF Row, PromptOf, Total, add
      <4>3. /\ PromptOf(billed') = SumFunctionOnSet(ni, Good')
            /\ billed'.read = SumFunctionOnSet(nc, Good')
            /\ billed'.output = SumFunctionOnSet(no, Good')
        BY <3>6, <3>7, <3>8, <3>9, <3>11, <4>1, <4>2
      <4>4. ASSUME ~rebased', Good' = DOMAIN made' PROVE reported' = Total(billed')
        <5>1. ~rebased /\ Good = DOMAIN made
          BY <1>3, <1>5, <2>5, <3>11, <4>4
        <5>2. reported = Total(billed) /\ reported = cumulative
          BY <1>2, <3>9, <5>1 DEF LogTyped
        <5>3. reported' = Total(billed) + u.total
          BY <1>1, <1>3, <5>2
        <5>4. Total(billed') = Total(billed) + u.total
          BY <4>1, <4>2
        <5> QED BY <5>3, <5>4
      <4> QED BY <3>5, <4>3, <4>4 DEF Bills, PromptOf, Total
    <3> QED BY <3>10, <3>11
  <2>8. Breaks'
    <3>0. Len(breaks) = Cardinality(Broken)
      BY <2>2 DEF Breaks
    <3> DEFINE n == Len(made) + 1
               Colder == \E j \in Good : (\A k \in Good : k <= j) /\ Collapses(made[j], u)
    <3>1. Broken' = IF usable(u) /\ Colder THEN Broken \cup {n} ELSE Broken
      BY <1>1, <1>2, OneMoreBreak
    <3>2. CASE ~usable(u)
      <4>1. Broken' = Broken /\ Good' = Good /\ breaks' = breaks /\ prevShare' = prevShare
        BY <1>5, <2>4, <3>1, <3>2
      <4>2. \A j \in Good : made'[j] = made[j]
        BY <1>5, <2>5
      <4> QED BY <2>2, <4>1, <4>2 DEF Breaks
    <3>3. CASE usable(u)
      <4> DEFINE share == [read |-> u.cached, prompt |-> u.input]
      <4>1. /\ u.input \in Nat /\ u.cached \in Nat /\ u.input > 0 /\ PromptOf(exclusive(u)) = u.input
            /\ exclusive(u).read = u.cached
        BY <3>3, UsageFields
      <4>2. /\ prevShare' = share
            /\ breaks' = IF Warm(prevShare) /\ Cold(share) /\ share.prompt >= MinColdRead
                         THEN Append(breaks, [line |-> written', cold |-> exclusive(u).input])
                         ELSE breaks
        <5>1. observeCache(exclusive(u))
          BY <2>4, <3>3
        <5>2. [read |-> exclusive(u).read, prompt |-> PromptOf(exclusive(u))] = share
              /\ share.prompt = u.input /\ u.input # 0
          BY <4>1
        <5> HIDE DEF share
        <5> QED BY <5>1, <5>2 DEF observeCache
      <4>3. Colder <=> (Warm(prevShare) /\ Cold(share) /\ share.prompt >= MinColdRead)
        <5>0. WarmShare \in Nat /\ ColdShare \in Nat /\ MinColdRead \in Nat
          BY UsageAssumption
        <5>1. CASE Good = {}
          <6>1. prevShare = NoShare
            BY <2>2, <5>1 DEF Breaks
          <6>2. ~Warm(prevShare)
            BY <5>0, <6>1 DEF Warm, NoShare
          <6> QED BY <5>1, <6>2
        <5>2. CASE Good # {}
          <6>1. PICK j \in Good : /\ \A k \in Good : k <= j
                                  /\ prevShare = [read |-> made[j].cached, prompt |-> made[j].input]
            BY <2>2, <5>2 DEF Breaks
          <6>2. \A i \in Good : (\A k \in Good : k <= i) => i = j
            <7>1. \A i \in Good : i \in Nat
              BY <1>5, <2>5
            <7> QED BY <6>1, <7>1
          <6>3. Colder <=> Collapses(made[j], u)
            BY <6>1, <6>2
          <6>4. Collapses(made[j], u) <=> Warm(prevShare) /\ Cold(share) /\ share.prompt >= MinColdRead
            BY <6>1 DEF Collapses, Warm, Cold
          <6> QED BY <6>3, <6>4
        <5> QED BY <5>1, <5>2
      <4>4. Len(breaks') = Cardinality(Broken')
        <5>1. breaks \in Seq([line : Int, cold : Int])
          BY <1>2 DEF LogTyped
        <5>2. CASE Colder
          <6>1. Broken' = Broken \cup {n}
            BY <3>1, <3>3, <5>2
          <6>2. n \notin Broken
            BY <1>5, <2>5
          <6>3. Cardinality(Broken \cup {n}) = Cardinality(Broken) + 1
            <7> HIDE DEF n
            <7> QED BY <2>5, <6>2, FS_AddElement
          <6>4. breaks' = Append(breaks, [line |-> written', cold |-> exclusive(u).input])
            BY <4>2, <4>3, <5>2
          <6>5. \A e : Len(Append(breaks, e)) = Len(breaks) + 1
            BY <5>1
          <6>6. Len(breaks') = Len(breaks) + 1
            BY <6>4, <6>5
          <6> QED BY <3>0, <6>1, <6>3, <6>6
        <5>3. CASE ~Colder
          <6>1. Broken' = Broken /\ breaks' = breaks
            BY <3>1, <4>2, <4>3, <5>3
          <6> QED BY <3>0, <6>1
        <5> QED BY <5>2, <5>3
      <4>5. /\ n \in Good' /\ made'[n] = u /\ Good' # {}
            /\ \A k \in Good' : k <= n
        <5>1. Good' = Good \cup {n} /\ \A k \in Good : k < n /\ k \in Nat
          BY <1>5, <2>5, <3>3
        <5>2. n \in Nat
          BY <2>5
        <5> QED BY <1>5, <5>1, <5>2
      <4>6. prevShare' = [read |-> made'[n].cached, prompt |-> made'[n].input]
        BY <4>2, <4>5
      <4> HIDE DEF n
      <4> QED BY <4>4, <4>5, <4>6 DEF Breaks
    <3> QED BY <3>2, <3>3
  <2> QED BY <2>6, <2>7, <2>8
<1> QED BY <1>6, <1>7 DEF RolloutInv

\* The other lines bill nothing.
LEMMA OtherLines ==
  ASSUME RolloutInv, QuotaOnly \/ Compacted \/ Garbled \/ UNCHANGED rolloutVars
  PROVE  RolloutInv'
<1>1. /\ UNCHANGED <<made, last, repeated, straddled, billed, counted, reported, reEmitted,
                     breaks, prevShare, prevTotal, seenTotal>>
      /\ \/ UNCHANGED <<cumulative, rebased>>
         \/ cumulative' = 0 /\ rebased' = TRUE
      /\ \/ UNCHANGED <<garbled, skipped, unparsable>>
         \/ garbled' = garbled + 1 /\ skipped' = skipped + 1 /\ unparsable' = unparsable + 1
      /\ \/ UNCHANGED written
         \/ written < MaxWritten /\ written' = written + 1
  BY DEF QuotaOnly, Compacted, Garbled, Line, rolloutVars, clientVars, readerVars
<1>2. LogTyped /\ MaxWritten \in Nat
  BY UsageAssumption DEF RolloutInv
<1>3. LogTyped'
  <2>1. written' \in 0..MaxWritten
    BY <1>1, <1>2 DEF LogTyped
  <2>2. cumulative' \in Nat /\ rebased' \in BOOLEAN /\ (~rebased' => reported' = cumulative')
    <3>1. cumulative \in Nat /\ rebased \in BOOLEAN /\ (~rebased => reported = cumulative)
      BY <1>2 DEF LogTyped
    <3>2. CASE UNCHANGED <<cumulative, rebased>>
      BY <1>1, <3>1, <3>2
    <3>3. CASE cumulative' = 0 /\ rebased' = TRUE
      BY <3>3
    <3> QED BY <1>1, <3>2, <3>3
  <2>3. garbled' \in Nat /\ skipped' \in Nat /\ unparsable' \in Nat
    BY <1>1, <1>2 DEF LogTyped
  <2> QED BY <1>1, <1>2, <2>1, <2>2, <2>3 DEF LogTyped
<1>4. UNCHANGED <<Good, Inputs, Cached, Outputs, Broken>>
  BY <1>1, SameResponses
<1>5. ASSUME ~straddled' PROVE Counts' /\ Bills' /\ Breaks'
  <2>1. Counts /\ Bills /\ Breaks
    BY <1>1, <1>5 DEF RolloutInv
  <2>2. Counts'
    <3>1. /\ Len(made) \in Nat /\ repeated \in Nat /\ garbled \in Nat /\ counted \in Nat
          /\ reEmitted \in Nat /\ skipped \in Nat
      BY <1>2 DEF LogTyped
    <3>2. /\ counted + reEmitted + skipped = Len(made) + repeated + garbled
          /\ counted = Cardinality(Good) /\ unparsable = garbled
      BY <2>1 DEF Counts
    <3>3. counted + reEmitted + skipped = Len(made) + repeated + garbled
      BY <3>2
    <3>4. counted + reEmitted + (skipped + 1) = Len(made) + repeated + (garbled + 1)
      BY <3>1, <3>3
    <3>5. counted' + reEmitted' + skipped' = Len(made') + repeated' + garbled'
      BY <1>1, <3>3, <3>4
    <3>6. counted' = Cardinality(Good') /\ unparsable' = garbled'
      BY <1>1, <1>4, <3>2
    <3> QED BY <3>5, <3>6 DEF Counts
  <2>3. Bills'
    BY <1>1, <1>4, <2>1 DEF Bills, PromptOf, Total
  <2>4. Breaks'
    BY <1>1, <1>4, <2>1 DEF Breaks
  <2> QED BY <2>2, <2>3, <2>4
<1> QED BY <1>3, <1>5 DEF RolloutInv

\* However often the client repeats itself, starts its running total over or
\* garbles a line, the reader of its log has every response on the bill once
\* and only once, accounts for every record it did not bill, and reports every
\* collapse of the cache: CodexSession, fed line by line.
THEOREM EveryResponseIsBilledOnce == RolloutSpec => []BilledOnce
<1>1. RolloutInv /\ [RolloutNext]_rolloutVars => RolloutInv'
  <2> SUFFICES ASSUME RolloutInv, [RolloutNext]_rolloutVars PROVE RolloutInv'
    OBVIOUS
  <2>1. ASSUME NEW u \in Usage, Turn(u) PROVE RolloutInv'
    BY <2>1, TurnStep
  <2>2. CASE Repeat
    BY <2>2, RepeatStep
  <2>3. CASE QuotaOnly \/ Compacted \/ Garbled \/ UNCHANGED rolloutVars
    BY <2>3, OtherLines
  <2> QED BY <2>1, <2>2, <2>3 DEF RolloutNext
<1>2. RolloutInv => BilledOnce
  <2> SUFFICES ASSUME RolloutInv PROVE BilledOnce
    OBVIOUS
  <2>1. LogTyped
    BY DEF RolloutInv
  <2>2. billed \in [{"input", "creation", "read", "output"} -> Nat]
    BY <2>1 DEF LogTyped, Row
  <2>3. Len(breaks) \in Nat
    BY <2>1 DEF LogTyped
  <2>4. RolloutTypeOK
    BY <2>1, <2>2, <2>3 DEF LogTyped, RolloutTypeOK
  <2>5. ASSUME ~straddled PROVE Counts /\ Bills /\ Breaks
    BY <2>5 DEF RolloutInv
  <2>6. ~straddled =>
          /\ PromptOf(billed) = Sum([i \in DOMAIN made |-> made[i].input])
          /\ billed.read = Sum([i \in DOMAIN made |-> made[i].cached])
          /\ billed.output = Sum([i \in DOMAIN made |-> made[i].output])
          /\ ~rebased /\ Good = DOMAIN made => reported = Total(billed)
    BY <2>5 DEF Bills, Sum, Inputs, Cached, Outputs
  <2>7. ~straddled =>
          /\ counted = Cardinality(Good) /\ unparsable = garbled
          /\ counted + reEmitted + skipped = Len(made) + repeated + garbled
    BY <2>5 DEF Counts
  <2>8. ~straddled =>
          Len(breaks) = Cardinality({i \in Good : \E j \in Good :
                                        Follows(i, j) /\ Collapses(made[j], made[i])})
    BY <2>5 DEF Breaks, Broken
  <2> QED BY <2>4, <2>6, <2>7, <2>8 DEF BilledOnce
<1> QED BY InitRollout, <1>1, <1>2, PTL DEF RolloutSpec

=============================================================================
