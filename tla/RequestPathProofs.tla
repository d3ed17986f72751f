-------------------------- MODULE RequestPathProofs --------------------------
(***************************************************************************)
(* What the request path promises, for any constants: the vault keeps what *)
(* it handed out (Vault), a guard refuses nobody without a cause (Guards), *)
(* and what the ledger says of a request that was alone in its lane is     *)
(* true (Lanes).                                                           *)
(*                                                                         *)
(* The vault.  That a placeholder is restorable now says nothing of the    *)
(* next process; the invariant says it of the file: a promise still in its *)
(* window is on disk under the stamp it was made with, and in memory while *)
(* the vault is up.                                                        *)
(***************************************************************************)
EXTENDS Vault, Guards, Lanes, FiniteSetTheorems, WellFoundedInduction, TLAPS

InWindow(s) == promised[s] # Absent /\ ~expired(promised[s])

PromisesKept ==
    \A s \in Secret :
        InWindow(s) => /\ disk[s] = promised[s]
                       /\ phase = "up" => mem[s] = promised[s]

\* What Placeholder finds in memory it hands out without writing.
MemoryOnDisk ==
    phase = "up" => \A s \in Secret : mem[s] # Absent => mem[s] = disk[s]

\* A process holds the key that is on disk, and the file is sealed under it.
KeyInUse ==
    /\ VaultOpens
    /\ phase # "down" => key = loaded /\ key # NoKey

VaultInv == TypeOK /\ PromisesKept /\ MemoryOnDisk /\ KeyInUse

\* A sweep only drops what has expired and stamps what has no stamp.
LEMMA SweepKeeps ==
  ASSUME NEW m \in [Secret -> Stamps], clock \in 1..MaxClock
  PROVE  /\ sweepLocked(m) \in [Secret -> Stamps \ {Unstamped}]
         /\ \A s \in Secret :
               /\ m[s] # Unstamped /\ sweepLocked(m)[s] # Absent
                     => sweepLocked(m)[s] = m[s]
               /\ m[s] > Unstamped /\ ~expired(m[s]) => sweepLocked(m)[s] = m[s]
BY VaultAssumption DEF sweepLocked, Stamps, Absent, Unstamped, expired

\* Nothing has been promised, or an older release left entries without a stamp.
LEMMA InitInv == Init => VaultInv
<1> SUFFICES ASSUME Init PROVE VaultInv
  OBVIOUS
<1> USE VaultAssumption DEF Absent, Unstamped, NoKey, Torn, Stamps, Empty
<1>1. TypeOK
  <2>1. disk \in [Secret -> Stamps]
    BY DEF Init
  <2>2. /\ mem \in [Secret -> Stamps \ {Unstamped}]
        /\ promised \in [Secret -> Stamps \ {Unstamped}]
        /\ seen \in [Secret -> Stamps]
    BY DEF Init
  <2>3. clock \in 1..MaxClock /\ phase \in {"down", "keyed", "up"}
    BY DEF Init
  <2>5. failed \in BOOLEAN
    BY Zenon DEF Init
  <2>4. /\ made \in Nat /\ key \in Torn..made /\ sealed \in NoKey..made
        /\ loaded \in NoKey..made
    BY DEF Init
  <2> QED BY <2>1, <2>2, <2>3, <2>4, <2>5 DEF TypeOK
<1>2. PromisesKept /\ MemoryOnDisk /\ KeyInUse
  BY DEF Init, PromisesKept, MemoryOnDisk, KeyInUse, InWindow, VaultOpens
<1> QED BY <1>1, <1>2 DEF VaultInv

\* One step of a process, the clock or a crash keeps the invariant.
LEMMA StepInv == VaultInv /\ [Next]_vars => VaultInv'
<1> SUFFICES ASSUME VaultInv, [Next]_vars PROVE VaultInv'
  OBVIOUS
<1> USE VaultAssumption DEF VaultInv
<1> USE DEF Absent, Unstamped, NoKey, Torn, Stamps
<1>1. CASE ReadKey
  BY <1>1 DEF ReadKey, files, TypeOK, PromisesKept, MemoryOnDisk, KeyInUse,
              InWindow, VaultOpens, expired
<1>2. CASE CreateKey
  BY <1>2 DEF CreateKey, TypeOK, PromisesKept, MemoryOnDisk, KeyInUse,
              InWindow, VaultOpens, expired
<1>3. CASE CreateKeyFails
  BY <1>3 DEF CreateKeyFails, TypeOK, PromisesKept, MemoryOnDisk, KeyInUse,
              InWindow, VaultOpens, expired
<1>4. CASE Die
  BY <1>4 DEF Die, files, Empty, TypeOK, PromisesKept, MemoryOnDisk, KeyInUse,
              InWindow, VaultOpens, expired
<1>5. CASE Tick
  <2>1. \A s \in Secret : InWindow(s)' => InWindow(s)
    BY <1>5 DEF Tick, InWindow, expired, TypeOK
  <2>2. PromisesKept'
    BY <1>5, <2>1 DEF Tick, files, PromisesKept
  <2> QED
    BY <1>5, <2>2 DEF Tick, files, TypeOK, MemoryOnDisk, KeyInUse, VaultOpens
<1>6. ASSUME NEW ok \in BOOLEAN, Open(ok) PROVE VaultInv'
  <2> DEFINE swept == sweepLocked(disk)
  <2>1. /\ swept \in [Secret -> Stamps \ {Unstamped}]
        /\ \A s \in Secret : disk[s] > Unstamped /\ ~expired(disk[s]) => swept[s] = disk[s]
    BY SweepKeeps DEF TypeOK
  <2>2. CASE ok
    <3>1. /\ mem' = swept /\ disk' = swept
          /\ phase' = "up" /\ UNCHANGED <<clock, key, made, loaded, promised, seen>>
          /\ failed' = FALSE
          /\ sealed' \in {sealed, loaded} /\ sealed \in {NoKey, loaded}
          /\ phase = "keyed"
      BY <1>6, <2>2 DEF Open
    <3> HIDE DEF swept
    <3>2. TypeOK'
      BY <2>1, <3>1 DEF TypeOK
    <3>3. PromisesKept'
      BY <2>1, <3>1 DEF PromisesKept, InWindow, expired, TypeOK
    <3>4. MemoryOnDisk'
      BY <3>1 DEF MemoryOnDisk
    <3>5. KeyInUse'
      BY <3>1 DEF KeyInUse, VaultOpens
    <3> QED BY <3>2, <3>3, <3>4, <3>5
  <2>3. CASE ~ok
    <3>1. phase' = "down" /\ UNCHANGED <<clock, files, loaded, mem, promised, seen, failed>>
      BY <1>6, <2>3 DEF Open, files
    <3> QED
      BY <3>1 DEF files, TypeOK, PromisesKept, MemoryOnDisk, KeyInUse,
                  InWindow, VaultOpens, expired
  <2> QED BY <2>2, <2>3
<1> DEFINE swept == sweepLocked(mem)
<1>7. /\ swept \in [Secret -> Stamps \ {Unstamped}]
      /\ \A s \in Secret :
            /\ mem[s] > Unstamped /\ ~expired(mem[s]) => swept[s] = mem[s]
            /\ swept[s] # Absent => swept[s] = mem[s]
  BY SweepKeeps DEF TypeOK
<1> HIDE DEF swept
<1>8. ASSUME NEW s \in Secret, PlaceholderKnown(s) PROVE VaultInv'
  <2>1. /\ phase = "up" /\ mem[s] # Absent
        /\ promised' = [promised EXCEPT ![s] = mem[s]]
        /\ seen' = [seen EXCEPT ![s] = clock]
        /\ UNCHANGED <<clock, phase, files, loaded, mem, failed>>
    BY <1>8 DEF PlaceholderKnown, HandOut
  <2>2. TypeOK'
    <3>1. promised' \in [Secret -> Stamps \ {Unstamped}] /\ seen' \in [Secret -> Stamps]
      BY <2>1 DEF TypeOK
    <3>2. UNCHANGED <<clock, phase, key, made, loaded, sealed, disk, mem, failed>>
      BY <2>1 DEF files
    <3> QED BY <3>1, <3>2 DEF TypeOK
  <2>3. PromisesKept'
    BY <2>1 DEF files, PromisesKept, MemoryOnDisk, InWindow, expired, TypeOK
  <2>4. MemoryOnDisk' /\ KeyInUse'
    BY <2>1 DEF files, MemoryOnDisk, KeyInUse, VaultOpens
  <2> QED BY <2>2, <2>3, <2>4
<1>9. ASSUME NEW s \in Secret, NEW ok \in BOOLEAN,
             PlaceholderSwept(s, ok) \/ PlaceholderNew(s, ok)
      PROVE  VaultInv'
  <2>1. CASE ok
    <3>1. PICK at \in Stamps \ {Unstamped} :
            /\ at # Absent
            /\ mem' = [swept EXCEPT ![s] = at] /\ disk' = mem'
            /\ swept[s] # Absent => at = swept[s]
            /\ promised' = [promised EXCEPT ![s] = at]
      <4>1. CASE PlaceholderSwept(s, ok)
        <5>1. /\ swept[s] \in Stamps \ {Unstamped} /\ swept[s] # Absent
              /\ swept = [swept EXCEPT ![s] = swept[s]]
          BY <1>7, <4>1 DEF PlaceholderSwept, swept
        <5>2. mem' = swept /\ disk' = swept /\ promised' = [promised EXCEPT ![s] = swept[s]]
          BY <2>1, <4>1 DEF PlaceholderSwept, save, HandOut, swept
        <5> QED BY <5>1, <5>2
      <4>2. CASE PlaceholderNew(s, ok)
        <5>1. /\ mem' = [swept EXCEPT ![s] = clock] /\ disk' = mem' /\ swept[s] = Absent
              /\ promised' = [promised EXCEPT ![s] = clock]
          BY <2>1, <4>2 DEF PlaceholderNew, save, HandOut, swept
        <5>2. clock \in Stamps \ {Unstamped} /\ clock # Absent
          BY DEF TypeOK
        <5> QED BY <5>1, <5>2
      <4> QED BY <1>9, <4>1, <4>2
    <3>2. /\ seen' = [seen EXCEPT ![s] = clock] /\ failed' = FALSE
          /\ sealed' = loaded /\ phase = "up"
          /\ UNCHANGED <<clock, phase, key, made, loaded>>
      BY <1>9, <2>1 DEF PlaceholderSwept, PlaceholderNew, save, HandOut
    <3>3. TypeOK'
      <4>1. /\ mem' \in [Secret -> Stamps \ {Unstamped}] /\ disk' \in [Secret -> Stamps]
            /\ promised' \in [Secret -> Stamps \ {Unstamped}] /\ seen' \in [Secret -> Stamps]
        BY <1>7, <3>1, <3>2 DEF TypeOK
      <4> QED BY <3>2, <4>1 DEF TypeOK
    <3>4. PromisesKept'
      BY <1>7, <3>1, <3>2 DEF PromisesKept, InWindow, expired, TypeOK
    <3>5. MemoryOnDisk' /\ KeyInUse'
      BY <3>1, <3>2 DEF MemoryOnDisk, KeyInUse, VaultOpens
    <3> QED BY <3>3, <3>4, <3>5
  <2>2. CASE ~ok
    <3>1. /\ mem' = swept /\ failed' = TRUE /\ phase = "up"
          /\ UNCHANGED <<clock, phase, files, loaded, promised, seen>>
      BY <1>9, <2>2 DEF PlaceholderSwept, PlaceholderNew, saveFails, files, swept
    <3> QED
      BY <1>7, <3>1 DEF files, TypeOK, PromisesKept, MemoryOnDisk, KeyInUse,
                  InWindow, VaultOpens, expired
  <2> QED BY <2>1, <2>2
<1>10. CASE UNCHANGED vars
  BY <1>10 DEF vars, files, TypeOK, PromisesKept, MemoryOnDisk, KeyInUse,
               InWindow, VaultOpens, expired
<1> QED BY <1>1, <1>2, <1>3, <1>4, <1>5, <1>6, <1>8, <1>9, <1>10 DEF Next

(* A restart loses nothing inside the retention window, for any TTL.       *)
THEOREM RestartLosesNothing == Spec => []KeptForItsWindow
<1>1. VaultInv => KeptForItsWindow
  BY VaultAssumption DEF VaultInv, KeptForItsWindow, PromisesKept, InWindow, Restorable
<1> QED BY InitInv, StepInv, <1>1, PTL DEF Spec

(* The key file and the vault file never part, however often a start dies. *)
THEOREM VaultAlwaysOpens == Spec => []VaultOpens
<1>1. VaultInv => VaultOpens
  BY DEF VaultInv, KeyInUse
<1> QED BY InitInv, StepInv, <1>1, PTL DEF Spec

-----------------------------------------------------------------------------
(* What is at rest.  Nothing was handed out later than now, and unless a   *)
(* save has failed the file is the map, so what a sweep drops is gone from *)
(* both.                                                                   *)
AtRest ==
    /\ \A s \in Secret : seen[s] <= clock
    /\ phase = "up" /\ ~failed => mem = disk
    /\ SweptAtRest

\* Nothing a sweep leaves behind has outlived the retention.
LEMMA SweepDrops ==
  ASSUME NEW m \in [Secret -> Stamps], clock \in 1..MaxClock, TTL > 0,
         NEW s \in Secret, sweepLocked(m)[s] # Absent
  PROVE  clock - sweepLocked(m)[s] <= TTL
BY VaultAssumption DEF sweepLocked, Stamps, Absent, Unstamped, expired

\* One step of a process, the clock or a crash keeps it.
LEMMA AtRestStep == VaultInv /\ AtRest /\ [Next]_vars => AtRest'
<1> SUFFICES ASSUME VaultInv, AtRest, [Next]_vars PROVE AtRest'
  OBVIOUS
<1> USE VaultAssumption DEF VaultInv, AtRest, SweptAtRest, Absent, Unstamped, Stamps
<1>1. /\ clock \in 1..MaxClock /\ disk \in [Secret -> Stamps]
      /\ mem \in [Secret -> Stamps] /\ seen \in [Secret -> Stamps]
  BY DEF TypeOK
<1>2. CASE ReadKey \/ CreateKey \/ CreateKeyFails \/ Die \/ Tick \/ UNCHANGED vars
  BY <1>1, <1>2 DEF ReadKey, CreateKey, CreateKeyFails, Die, Tick, vars, files
<1>3. ASSUME NEW ok \in BOOLEAN, Open(ok) PROVE AtRest'
  <2> DEFINE swept == sweepLocked(disk)
  <2>1. TTL > 0 => \A s \in Secret : swept[s] # Absent => clock - swept[s] <= TTL
    BY <1>1, SweepDrops
  <2>2. swept \in [Secret -> Stamps \ {Unstamped}]
    BY <1>1, SweepKeeps
  <2>3. CASE ok
    <3>1. mem' = swept /\ disk' = swept /\ UNCHANGED <<clock, seen>>
      BY <1>3, <2>3 DEF Open
    <3> HIDE DEF swept
    <3> QED BY <1>1, <2>1, <2>2, <3>1
  <2>4. CASE ~ok
    <3>1. phase' = "down" /\ UNCHANGED <<clock, seen>>
      BY <1>3, <2>4 DEF Open
    <3> QED BY <3>1
  <2> QED BY <2>3, <2>4
<1> DEFINE swept == sweepLocked(mem)
<1>4. /\ TTL > 0 => \A s \in Secret : swept[s] # Absent => clock - swept[s] <= TTL
      /\ swept \in [Secret -> Stamps \ {Unstamped}]
  BY <1>1, SweepDrops, SweepKeeps
<1>5. ASSUME NEW s \in Secret, PlaceholderKnown(s) PROVE AtRest'
  <2>1. swept = mem /\ seen' = [seen EXCEPT ![s] = clock]
    BY <1>5 DEF PlaceholderKnown, HandOut
  <2>2. UNCHANGED <<clock, phase, disk, mem, failed>>
    BY <1>5 DEF PlaceholderKnown, files
  <2> HIDE DEF swept
  <2> QED BY <1>1, <1>4, <2>1, <2>2
<1>6. ASSUME NEW s \in Secret, NEW ok \in BOOLEAN,
             PlaceholderSwept(s, ok) \/ PlaceholderNew(s, ok)
      PROVE  AtRest'
  <2>1. CASE ok
    <3>1. /\ mem' = disk' /\ seen' = [seen EXCEPT ![s] = clock] /\ clock' = clock
          /\ disk' = swept \/ disk' = [swept EXCEPT ![s] = clock]
      BY <1>6, <2>1 DEF PlaceholderSwept, PlaceholderNew, save, HandOut
    <3> HIDE DEF swept
    <3>2. TTL > 0 => \A u \in Secret : disk'[u] # Absent => clock - disk'[u] <= TTL
      BY <1>1, <1>4, <3>1
    <3>3. disk' \in [Secret -> Stamps]
      BY <1>1, <1>4, <3>1
    <3>4. \A u \in Secret : seen'[u] <= clock /\ seen'[u] \in Int
      BY <1>1, <3>1
    <3>5. TTL > 0 => \A u, t \in Secret : disk'[u] # Absent => seen'[t] - disk'[u] <= TTL
      BY <1>1, <3>2, <3>3, <3>4
    <3> QED BY <3>1, <3>4, <3>5
  <2>2. CASE ~ok
    BY <1>6, <2>2 DEF PlaceholderSwept, PlaceholderNew, saveFails
  <2> QED BY <2>1, <2>2
<1> QED BY <1>2, <1>3, <1>5, <1>6 DEF Next

(* Eviction reaches the file: unless a save has failed since, nothing on   *)
(* disk had outlived the retention when a placeholder was last handed out, *)
(* for any retention and any sequence of restarts (Placeholder, save).     *)
THEOREM NothingOutlivesItsRetention == Spec => []SweptAtRest
<1>1. Init => AtRest
  BY VaultAssumption DEF Init, AtRest, SweptAtRest, Empty, Absent
<1>2. VaultInv /\ AtRest /\ [Next]_vars => VaultInv' /\ AtRest'
  BY StepInv, AtRestStep
<1>3. AtRest => SweptAtRest
  BY DEF AtRest
<1> QED BY InitInv, <1>1, <1>2, <1>3, PTL DEF Spec

(* The three together, for any secrets, retention, failures and restarts:  *)
(* the vault opens, restores what it handed out for its window, and keeps  *)
(* nothing past it (NewVault, Placeholder, save, loadOrCreateKey).         *)
THEOREM VaultAlwaysKeepsItsWord == Spec => []VaultKeepsItsWord
<1> QED
  BY VaultAlwaysOpens, RestartLosesNothing, NothingOutlivesItsRetention, PTL
     DEF VaultKeepsItsWord

-----------------------------------------------------------------------------
(***************************************************************************)
(* The guards.  A verdict is read from figures that other requests publish *)
(* in their own time, so it is not enough that each figure was true once:  *)
(* the invariant bounds every figure by the requests it stands for.  And   *)
(* the loop detector is one pass with two variables; what it finds is said *)
(* of the whole conversation, by least counterexample over its prefixes.   *)
(***************************************************************************)

\* A set of naturals that is not empty has a least element.
LEMMA LeastNatural ==
  ASSUME NEW T \in SUBSET Nat, T # {}
  PROVE  \E m \in T : \A n \in T : m <= n
<1>1. PICK m \in T : \A n \in T : <<n, m>> \notin OpToRel(<, Nat)
  BY WFMin, NatLessThanWellFounded, Zenon
<1>2. \A n \in T : ~ (n < m)
  <2> SUFFICES ASSUME NEW n \in T, n < m PROVE FALSE
    OBVIOUS
  <2>1. <<n, m>> \in OpToRel(<, Nat)
    BY Zenon DEF OpToRel
  <2> QED BY <1>1, <2>1
<1> QED BY <1>2


\* What DetectLoop has found in the first i blocks.
Start == [lastKey |-> NoCall, Repeats |-> 0]
IsRun(cs, n, f) == f = [i \in 0..n |-> IF i = 0 THEN Start ELSE repeats(f[i - 1], cs[i])]

\* There is such a function, so the recursion defines it.
LEMMA RunExists ==
  ASSUME NEW cs \in Conversations PROVE \E f : IsRun(cs, Len(cs), f)
<1>1. Len(cs) \in Nat
  BY GuardsAssumption
<1> DEFINE Bad == {n \in Nat : n <= Len(cs) /\ ~ \E f : IsRun(cs, n, f)}
<1>2. CASE Bad = {}
  BY <1>1, <1>2
<1>3. CASE Bad # {}
  <2>1. PICK n \in Bad : \A k \in Bad : n <= k
    BY <1>3, LeastNatural
  <2>2. n # 0
    <3>1. IsRun(cs, 0, [i \in 0..0 |-> Start])
      BY DEF IsRun
    <3> QED BY <3>1
  <2>3. n - 1 \in Nat /\ n - 1 \notin Bad /\ n - 1 <= Len(cs)
    BY <1>1, <2>1, <2>2
  <2>4. PICK f : IsRun(cs, n - 1, f)
    BY <2>3
  <2> DEFINE g == [i \in 0..n |-> IF i = n THEN repeats(f[n - 1], cs[n]) ELSE f[i]]
  <2>5. \A i \in 0..n : g[i] = IF i = 0 THEN Start ELSE repeats(g[i - 1], cs[i])
    <3> SUFFICES ASSUME NEW i \in 0..n
                 PROVE  g[i] = IF i = 0 THEN Start ELSE repeats(g[i - 1], cs[i])
      OBVIOUS
    <3>1. CASE i = n
      <4>1. i - 1 \in 0..n /\ i - 1 # n /\ n \in 0..n
        BY <2>2, <2>3, <3>1
      <4>2. g[i - 1] = f[n - 1] /\ g[i] = repeats(f[n - 1], cs[n])
        BY <3>1, <4>1
      <4> QED BY <2>2, <3>1, <4>2
    <3>2. CASE i # n
      <4>1. i \in 0..(n - 1) /\ g[i] = f[i]
        BY <2>3, <3>2
      <4>2. f[i] = IF i = 0 THEN Start ELSE repeats(f[i - 1], cs[i])
        BY <2>4, <4>1 DEF IsRun
      <4>3. i # 0 => g[i - 1] = f[i - 1]
        BY <2>3, <4>1
      <4> QED BY <4>1, <4>2, <4>3
    <3> QED BY <3>1, <3>2
  <2>6. IsRun(cs, n, g)
    BY <2>5 DEF IsRun
  <2> QED BY <2>6
<1> QED BY <1>2, <1>3

\* The calls of blocks m + 1 to i are the v.Repeats calls of a run of v.lastKey,
\* and the call before them, if any, is another.
Between(cs, m, i) == {k \in (m + 1)..i : cs[k] # NoCall}
RunFrom(cs, m, i, n, final) ==
    /\ Cardinality(Between(cs, m, i)) = n
    /\ \A k \in Between(cs, m, i) : cs[k] = final
    /\ m > 0 => cs[m] \notin {NoCall, final}

\* What DetectLoop knows after block i: no call yet, or the run it is in.
RunAt(cs, i, n, final) ==
    /\ n \in Nat
    /\ n = 0 => final = NoCall /\ \A k \in 1..i : cs[k] = NoCall
    /\ n > 0 => final # NoCall /\ \E m \in 0..i : RunFrom(cs, m, i, n, final)

LEMMA BetweenFinite ==
  ASSUME NEW cs, NEW m \in Nat, NEW i \in Nat
  PROVE  IsFiniteSet(Between(cs, m, i)) /\ Cardinality(Between(cs, m, i)) \in Nat
<1>1. m + 1 \in Int /\ i \in Int
  OBVIOUS
<1>2. IsFiniteSet((m + 1)..i)
  BY <1>1, FS_Interval
<1>3. Between(cs, m, i) \in SUBSET ((m + 1)..i)
  BY DEF Between
<1> QED BY <1>2, <1>3, FS_Subset, FS_CardinalityType

LEMMA RunStep ==
  ASSUME NEW cs, NEW i \in Nat, NEW v, RunAt(cs, i, v.Repeats, v.lastKey)
  PROVE  LET w == repeats(v, cs[i + 1]) IN RunAt(cs, i + 1, w.Repeats, w.lastKey)
<1> DEFINE c == cs[i + 1]
           w == repeats(v, c)
<1>1. CASE c = NoCall
  <2>1. \A m \in Nat : Between(cs, m, i + 1) = Between(cs, m, i)
    BY <1>1 DEF Between
  <2>2. w = v
    BY <1>1 DEF repeats
  <2>3. \A k \in 1..(i + 1) : k \in 1..i \/ k = i + 1
    OBVIOUS
  <2>4. ASSUME v.Repeats > 0
        PROVE  v.lastKey # NoCall
               /\ \E m \in 0..(i + 1) : RunFrom(cs, m, i + 1, v.Repeats, v.lastKey)
    <3>1. PICK m \in 0..i : RunFrom(cs, m, i, v.Repeats, v.lastKey)
      BY <2>4 DEF RunAt
    <3>2. m \in Nat /\ m \in 0..(i + 1)
      OBVIOUS
    <3>3. RunFrom(cs, m, i + 1, v.Repeats, v.lastKey)
      BY <2>1, <3>1, <3>2 DEF RunFrom
    <3> QED BY <2>4, <3>2, <3>3 DEF RunAt
  <2>5. v.Repeats = 0 => \A k \in 1..(i + 1) : cs[k] = NoCall
    BY <1>1, <2>3 DEF RunAt
  <2> QED BY <2>2, <2>4, <2>5 DEF RunAt
<1>2. CASE c # NoCall /\ c = v.lastKey
  <2>1. v.Repeats > 0 /\ v.Repeats \in Nat
    BY <1>2 DEF RunAt
  <2>2. PICK m \in 0..i : RunFrom(cs, m, i, v.Repeats, v.lastKey)
    BY <2>1 DEF RunAt
  <2>3. m \in Nat /\ m \in 0..(i + 1)
    OBVIOUS
  <2>4. Between(cs, m, i + 1) = Between(cs, m, i) \cup {i + 1} /\ i + 1 \notin Between(cs, m, i)
    BY <1>2, <2>3 DEF Between
  <2>5. Cardinality(Between(cs, m, i + 1)) = v.Repeats + 1
    BY <2>2, <2>3, <2>4, BetweenFinite, FS_AddElement DEF RunFrom
  <2>6. w.lastKey = c /\ w.Repeats = v.Repeats + 1
    BY <1>2 DEF repeats
  <2>7. RunFrom(cs, m, i + 1, v.Repeats + 1, c)
    BY <1>2, <2>2, <2>4, <2>5 DEF RunFrom
  <2>8. v.Repeats + 1 \in Nat /\ v.Repeats + 1 # 0
    BY <2>1
  <2> QED BY <1>2, <2>3, <2>6, <2>7, <2>8 DEF RunAt
<1>3. CASE c # NoCall /\ c # v.lastKey
  <2>1. w.lastKey = c /\ w.Repeats = 1
    BY <1>3 DEF repeats
  <2>2. \E m \in 0..(i + 1) : RunFrom(cs, m, i + 1, 1, c)
    <3>1. CASE v.Repeats = 0
      <4>1. Between(cs, 0, i + 1) = {i + 1}
        BY <1>3, <3>1 DEF RunAt, Between
      <4>2. RunFrom(cs, 0, i + 1, 1, c)
        BY <4>1, FS_Singleton DEF RunFrom
      <4>3. 0 \in 0..(i + 1)
        OBVIOUS
      <4> QED BY <4>2, <4>3
    <3>2. CASE v.Repeats # 0
      <4>1. PICK m \in 0..i : RunFrom(cs, m, i, v.Repeats, v.lastKey)
        BY <3>2 DEF RunAt
      <4> DEFINE S == Between(cs, m, i)
      <4>2. S # {} /\ S \subseteq (m + 1)..i /\ m \in Nat
        BY <3>2, <4>1, FS_EmptySet DEF RunFrom, Between
      <4>3. PICK b \in S : \A k \in S : k <= b
        <5> HIDE DEF S
        <5> DEFINE D == {i - k : k \in S}
        <5>0. \A k \in S : i - k \in Nat
          BY <4>2
        <5>1. D \in SUBSET Nat /\ D # {}
          BY <4>2, <5>0, Zenon
        <5>2. PICK d \in D : \A e \in D : d <= e
          BY <5>1, LeastNatural
        <5>3. PICK b \in S : d = i - b
          OBVIOUS
        <5>4. \A k \in S : i - b <= i - k
          BY <5>2, <5>3
        <5> QED BY <4>2, <5>4
      <4>4. cs[b] = v.lastKey /\ cs[b] # NoCall /\ b \in 0..(i + 1) /\ b \in (m + 1)..i
        BY <4>1, <4>2, <4>3 DEF RunFrom, Between
      <4>5. Between(cs, b, i + 1) = {i + 1}
        <5>1. i + 1 \in Between(cs, b, i + 1)
          BY <1>3, <4>4 DEF Between
        <5>2. ASSUME NEW k \in Between(cs, b, i + 1), k # i + 1 PROVE FALSE
          <6>1. k \in S /\ k > b /\ k \in Int
            BY <4>2, <4>4, <5>2 DEF Between
          <6> QED BY <4>3, <4>4, <6>1
        <5> QED BY <5>1, <5>2
      <4>6. RunFrom(cs, b, i + 1, 1, c)
        BY <1>3, <4>4, <4>5, FS_Singleton DEF RunFrom
      <4> QED BY <4>4, <4>6
    <3> QED BY <3>1, <3>2
  <2> QED BY <1>3, <2>1, <2>2 DEF RunAt
<1> QED BY <1>1, <1>2, <1>3

\* The loop guard refuses exactly the conversations that end in LoopBlock equal
\* calls, whatever stands between those calls and before them.
LEMMA LoopFound ==
  ASSUME NEW cs \in Conversations
  PROVE  Blocked(cs) <=> LoopBlock > 0 /\ EndsInRun(cs, LoopBlock)
<1> DEFINE N == Len(cs)
           run == CHOOSE f : IsRun(cs, N, f)
<1>1. N \in Nat /\ LoopBlock \in Nat
  BY GuardsAssumption
<1>2. IsRun(cs, N, run)
  BY RunExists
<1>3. \A i \in 0..N : run[i] = IF i = 0 THEN Start ELSE repeats(run[i - 1], cs[i])
  BY <1>2 DEF IsRun
<1>4. DetectLoop(cs) = run[N].Repeats
  BY Zenon DEF DetectLoop, IsRun, Start
<1> HIDE DEF run
<1>5. \A i \in 0..N : RunAt(cs, i, run[i].Repeats, run[i].lastKey)
  <2> DEFINE Bad == {i \in 0..N : ~ RunAt(cs, i, run[i].Repeats, run[i].lastKey)}
  <2> SUFFICES ASSUME Bad # {} PROVE FALSE
    OBVIOUS
  <2>1. Bad \in SUBSET Nat
    BY <1>1
  <2>2. PICK i \in Bad : \A k \in Bad : i <= k
    BY <2>1, LeastNatural
  <2>3. i # 0
    <3>1. 0 \in 0..N /\ run[0] = Start
      BY <1>1, <1>3
    <3>2. RunAt(cs, 0, run[0].Repeats, run[0].lastKey)
      BY <3>1 DEF RunAt, Start
    <3> QED BY <3>2
  <2>4. i - 1 \in Nat /\ i - 1 \in 0..N /\ i - 1 \notin Bad /\ i \in 0..N /\ (i - 1) + 1 = i
    BY <1>1, <2>1, <2>2, <2>3
  <2>5. RunAt(cs, i - 1, run[i - 1].Repeats, run[i - 1].lastKey)
    BY <2>4
  <2>6. run[i] = repeats(run[i - 1], cs[(i - 1) + 1])
    BY <1>3, <2>3, <2>4
  <2>7. RunAt(cs, (i - 1) + 1, run[i].Repeats, run[i].lastKey)
    BY <2>4, <2>5, <2>6, RunStep
  <2> QED BY <2>4, <2>7
<1> DEFINE n == run[N].Repeats
           final == run[N].lastKey
<1>6. RunAt(cs, N, n, final)
  BY <1>1, <1>5
<1>7. \A m : CallsAfter(cs, m) = Between(cs, m, N)
  BY DEF CallsAfter, Between
<1> HIDE DEF n, final
<1>8. n \in Nat /\ (Blocked(cs) <=> LoopBlock > 0 /\ n >= LoopBlock)
  BY <1>4, <1>6 DEF Blocked, RunAt, n
<1>9. ASSUME LoopBlock > 0, n >= LoopBlock PROVE EndsInRun(cs, LoopBlock)
  <2>1. PICK m \in 0..N : RunFrom(cs, m, N, n, final)
    BY <1>1, <1>6, <1>8, <1>9 DEF RunAt
  <2> QED BY <1>7, <1>9, <2>1 DEF EndsInRun, RunFrom
<1>10. ASSUME LoopBlock > 0, EndsInRun(cs, LoopBlock) PROVE n >= LoopBlock
  <2>1. PICK b \in 0..N : /\ Cardinality(Between(cs, b, N)) >= LoopBlock
                          /\ \A i, j \in Between(cs, b, N) : cs[i] = cs[j]
    BY <1>7, <1>10 DEF EndsInRun
  <2>2. b \in Nat /\ IsFiniteSet(Between(cs, b, N)) /\ Cardinality(Between(cs, b, N)) \in Nat
    BY <1>1, BetweenFinite
  <2>3. PICK i \in Between(cs, b, N) : TRUE
    BY <1>1, <1>10, <2>1, <2>2, FS_EmptySet
  <2>4. n > 0
    <3>1. i \in 1..N /\ cs[i] # NoCall
      BY <2>2, <2>3 DEF Between
    <3> QED BY <1>6, <1>8, <3>1 DEF RunAt
  <2>5. PICK m \in 0..N : RunFrom(cs, m, N, n, final)
    BY <1>6, <2>4 DEF RunAt
  <2>6. m \in Nat /\ IsFiniteSet(Between(cs, m, N))
    BY <1>1, BetweenFinite
  <2>7. CASE m <= b
    <3>1. Between(cs, b, N) \in SUBSET Between(cs, m, N)
      BY <1>1, <2>2, <2>6, <2>7 DEF Between
    <3>2. Cardinality(Between(cs, b, N)) <= Cardinality(Between(cs, m, N))
      BY <2>6, <3>1, FS_Subset
    <3> QED BY <1>1, <1>8, <2>1, <2>2, <2>5, <3>2 DEF RunFrom
  <2>8. CASE b < m
    <3>1. m > 0 /\ cs[m] \notin {NoCall, final}
      BY <2>2, <2>5, <2>6, <2>8 DEF RunFrom
    <3>2. m \in Between(cs, b, N)
      BY <1>1, <2>2, <2>6, <2>8, <3>1 DEF Between
    <3>3. PICK j \in Between(cs, m, N) : TRUE
      <4>1. Cardinality(Between(cs, m, N)) # 0
        BY <2>4, <2>5, <1>8 DEF RunFrom
      <4> QED BY <2>6, <4>1, FS_EmptySet
    <3>4. j \in Between(cs, b, N) /\ cs[j] = final
      BY <1>1, <2>2, <2>5, <2>6, <2>8, <3>3 DEF Between, RunFrom
    <3> QED BY <2>1, <3>1, <3>2, <3>4
  <2> QED BY <2>2, <2>6, <2>7, <2>8
<1> QED BY <1>8, <1>9, <1>10

-----------------------------------------------------------------------------
(* The figures a guard reads, and the requests they come from.               *)

\* The tally is exact: its update is one critical section with the observation.
TallyIsExact == tally = Cardinality(Counted)

\* A lane's figure counts errors of requests of that lane that are recorded, and
\* so does a walk that has yet to publish: a figure may be stale, and only low.
Recorded(q, a) == q \in records /\ client[q] = a /\ errs[q] = 1
FiguresAreLow ==
    /\ records = {r \in Request : turn[r] \in {"walked", "published"}}
    /\ \A a \in Client : \A q \in errorByLane[a] : Recorded(q, a)
    /\ \A r \in Request : turn[r] = "walked" => \A q \in own[r] : Recorded(q, client[r])

\* What a lane compares with is a prefix that a counted request of it sent.
LaneIsItsOwn ==
    /\ \A r \in Request : turn[r] \notin {"new", "refused"} => client[r] \in Client
    /\ \A a \in Client :
          lane[a] # "unseen" => \E q \in OfLane(Counted, a) : prefix[q] = lane[a]

GuardsInv == RefusedForCause /\ TallyIsExact /\ FiguresAreLow /\ LaneIsItsOwn

LEMMA GuardsFinite ==
  ASSUME NEW S \in SUBSET Request PROVE IsFiniteSet(S) /\ Cardinality(S) \in Nat
<1>0. 1 \in Int /\ MaxReq \in Int
  BY GuardsAssumption
<1>1. IsFiniteSet(Request)
  BY <1>0, FS_Interval DEF Request
<1> QED BY <1>1, FS_Subset, FS_CardinalityType

\* The errors of all lanes are errors of counted requests, none of them twice;
\* once the figures have settled they are all of them.
LEMMA ErrorsCountedOnce ==
  ASSUME GuardsTypeOK, FiguresAreLow, LaneIsItsOwn
  PROVE  /\ totalErrorTokens \in Nat /\ totalErrorTokens <= Cardinality(ErrorsOf(Counted))
         /\ Settled => totalErrorTokens = Cardinality(ErrorsOf(Counted))
<1> DEFINE P == {p \in Client \X Request : p[2] \in errorByLane[p[1]]}
           E == ErrorsOf(Counted)
           f == [p \in P |-> p[2]]
<1>1. \A p \in P : p[1] \in Client /\ p[2] \in E /\ client[p[2]] = p[1] /\ p = <<p[1], p[2]>>
  BY DEF FiguresAreLow, Recorded, ErrorsOf, Counted
<1>2. f \in Injection(P, E)
  BY <1>1 DEF Injection, IsInjective
<1>3. IsFiniteSet(E)
  BY GuardsFinite DEF ErrorsOf, Counted
<1>4. totalErrorTokens = Cardinality(P)
  BY DEF totalErrorTokens
<1>5. ASSUME Settled PROVE f \in Surjection(P, E)
  <2>1. ASSUME NEW r \in E PROVE \E p \in P : p[2] = r
    <3>1. r \in Request /\ turn[r] = "published" /\ errs[r] = 1 /\ client[r] \in Client
      BY <1>5 DEF Settled, ErrorsOf, Counted, LaneIsItsOwn
    <3>2. r \in errorByLane[client[r]]
      BY <1>5, <3>1 DEF Settled, ErrorsOf, OfLane, FiguresAreLow
    <3>3. <<client[r], r>> \in P
      BY <3>1, <3>2
    <3> QED BY <3>3
  <2> QED BY <1>2, <2>1 DEF Surjection, Injection
<1>6. Cardinality(P) \in Nat /\ Cardinality(P) <= Cardinality(E)
  BY <1>2, <1>3, FS_Injection, FS_CardinalityType
<1>7. Settled => Cardinality(P) = Cardinality(E)
  BY <1>2, <1>3, <1>5, FS_Injection
<1> QED BY <1>4, <1>6, <1>7

LEMMA OneMore == \A n \in Nat : n + 1 \in Nat
OBVIOUS

LEMMA MoreIsMore ==
  ASSUME NEW x \in Nat, NEW y \in Nat, NEW d \in Nat, x <= y PROVE x * d <= y * d
<1>1. PICK z \in Nat : y = x + z
  <2>1. y - x \in Nat /\ y = x + (y - x)
    OBVIOUS
  <2> QED BY <2>1
<1>2. y * d = x * d + z * d /\ z * d \in Nat /\ x * d \in Nat
  BY <1>1
<1> QED BY <1>2

\* A verdict is about the requests, though it is read from the figures.
LEMMA VerdictHasCause ==
  ASSUME GuardsTypeOK, TallyIsExact, FiguresAreLow, LaneIsItsOwn,
         NEW a \in Client, NEW h \in PromptPrefix, NEW cs \in Conversations
  PROVE  /\ Verdict(a, h, cs) # "passed" => Verdict(a, h, cs) \in Causes(a, h, cs)
         /\ Verdict(a, h, cs) = "passed" => "loop" \notin Causes(a, h, cs)
         /\ Verdict(a, h, cs) = "passed" /\ Settled => "error budget" \notin Causes(a, h, cs)
<1>1. ErrorBudgetCheck => OverBudget(Counted)
  <2>1. Counted \subseteq Request /\ ErrorsOf(Counted) \subseteq Request
    BY DEF Counted, ErrorsOf
  <2> DEFINE c == Cardinality(Counted)
             e == Cardinality(ErrorsOf(Counted))
             t == totalErrorTokens
  <2>2. c \in Nat /\ e \in Nat /\ t \in Nat /\ t <= e /\ tally = c
    BY <2>1, GuardsFinite, ErrorsCountedOnce DEF TallyIsExact
  <2>3. t * ShareDen <= e * ShareDen
    BY <2>2, MoreIsMore, GuardsAssumption
  <2>4. t * ShareDen \in Nat /\ e * ShareDen \in Nat /\ ShareNum * c \in Nat
    BY <2>2, GuardsAssumption
  <2> HIDE DEF c, e, t
  <2>5. ASSUME ErrorBudgetCheck PROVE e * ShareDen >= ShareNum * c /\ ShareNum > 0 /\ c >= MinPrompt
    <3>1. t * ShareDen >= ShareNum * c /\ ShareNum > 0 /\ c >= MinPrompt
      BY <2>2, <2>5 DEF ErrorBudgetCheck, t
    <3> QED BY <2>3, <2>4, <3>1
  <2> QED BY <2>5 DEF OverBudget, c, e
<1>2. Settled /\ OverBudget(Counted) => ErrorBudgetCheck
  BY ErrorsCountedOnce DEF ErrorBudgetCheck, OverBudget, TallyIsExact
<1>3. Blocked(cs) <=> LoopBlock > 0 /\ EndsInRun(cs, LoopBlock)
  BY LoopFound
<1>4. preFlight(a, h) => Relays(a, h)
  <2> SUFFICES ASSUME preFlight(a, h) PROVE Relays(a, h)
    OBVIOUS
  <2>1. h # Unhashed /\ lane[a] \notin {"unseen", h} /\ ~ (Low(Tokens[h]) <= Ceiling)
    BY DEF preFlight, laneSnapshot, WouldRefuse, Straddles
  <2>2. PICK q \in OfLane(Counted, a) : prefix[q] = lane[a]
    BY <2>1 DEF LaneIsItsOwn
  <2>3. h \in DOMAIN Tokens
    BY <2>1 DEF PromptPrefix
  <2>4. Tokens[h] \in Nat
    BY <2>3, GuardsAssumption
  <2>5. Low(Tokens[h]) \in Int /\ Ceiling \in Int
    BY <2>4, GuardsAssumption DEF Low
  <2>6. Low(Tokens[h]) > Ceiling
    BY <2>1, <2>5
  <2> QED BY <2>1, <2>2, <2>6 DEF Relays
<1>5. Verdict(a, h, cs) = IF ErrorBudgetCheck THEN "error budget"
                          ELSE IF Blocked(cs) THEN "loop"
                          ELSE IF preFlight(a, h) THEN "preflight" ELSE "passed"
  BY DEF Verdict
<1>6. /\ "error budget" \in Causes(a, h, cs) <=> OverBudget(Counted)
      /\ "loop" \in Causes(a, h, cs) <=> LoopBlock > 0 /\ EndsInRun(cs, LoopBlock)
      /\ "preflight" \in Causes(a, h, cs) <=> Relays(a, h)
  BY DEF Causes
<1> QED BY <1>1, <1>2, <1>3, <1>4, <1>5, <1>6

LEMMA GuardsInitInv == GuardsInit => GuardsInv
<1> SUFFICES ASSUME GuardsInit PROVE GuardsInv
  OBVIOUS
<1>1. Counted = {} /\ tally = 0
  BY DEF GuardsInit, Counted
<1>2. GuardsTypeOK
  BY DEF GuardsInit, GuardsTypeOK, NotJudging, PromptPrefix
<1>3. RefusedForCause
  BY <1>2 DEF RefusedForCause, GuardsInit, NotJudging
<1>4. TallyIsExact
  BY <1>1, FS_EmptySet DEF TallyIsExact
<1>5. FiguresAreLow
  BY DEF FiguresAreLow, GuardsInit
<1>6. LaneIsItsOwn
  BY DEF LaneIsItsOwn, GuardsInit
<1> QED BY <1>3, <1>4, <1>5, <1>6 DEF GuardsInv

\* Judging leaves every figure and every counted request alone.
LEMMA GuardStep ==
  ASSUME GuardsInv, NEW r \in Request, NEW a \in Client, NEW h \in PromptPrefix,
         NEW e \in {0, 1}, NEW cs \in Conversations, NEW override \in BOOLEAN,
         guard(r, a, h, e, cs, override)
  PROVE  GuardsInv'
<1> USE DEF GuardsInv, RefusedForCause
<1> DEFINE v == Verdict(a, h, cs)
           through == v = "passed" \/ override
<1>0. /\ turn[r] = "new"
      /\ judged' = [verdict |-> v, causes |-> Causes(a, h, cs), settled |-> Settled]
      /\ turn' = [turn EXCEPT ![r] = IF through THEN "upstream" ELSE "refused"]
      /\ client' = IF through THEN [client EXCEPT ![r] = a] ELSE client
      /\ prefix' = IF through THEN [prefix EXCEPT ![r] = h] ELSE prefix
      /\ errs' = IF through THEN [errs EXCEPT ![r] = e] ELSE errs
      /\ UNCHANGED <<lane, tally, records, own, errorByLane>>
  BY DEF guard
<1>1. /\ v # "passed" => v \in Causes(a, h, cs)
      /\ v = "passed" => "loop" \notin Causes(a, h, cs)
      /\ v = "passed" /\ Settled => "error budget" \notin Causes(a, h, cs)
  BY VerdictHasCause
<1>2. v # "none"
  BY <1>1 DEF Causes
<1> HIDE DEF v
<1>3. Causes(a, h, cs) \subseteq {"error budget", "loop", "preflight"}
  BY DEF Causes
<1>4. /\ turn' \in [Request -> {"new", "upstream", "refused", "observed", "walked", "published",
                                "ended"}]
      /\ client' \in [Request -> Client \cup {NoClient}] /\ prefix' \in [Request -> PromptPrefix]
      /\ errs' \in [Request -> {0, 1}]
  BY <1>0 DEF GuardsTypeOK
<1>5. GuardsTypeOK'
  BY <1>0, <1>3, <1>4 DEF GuardsTypeOK
<1>6. RefusedForCause'
  BY <1>0, <1>1, <1>2, <1>5
<1>7. /\ turn'[r] \in {"upstream", "refused"}
      /\ \A q \in Request \ {r} : /\ turn'[q] = turn[q] /\ client'[q] = client[q]
                                  /\ prefix'[q] = prefix[q] /\ errs'[q] = errs[q]
      /\ turn'[r] = "upstream" => client'[r] = a
  BY <1>0 DEF GuardsTypeOK
<1>8. Counted' = Counted /\ r \notin Counted
  BY <1>0, <1>7 DEF Counted
<1>9. TallyIsExact'
  BY <1>0, <1>8 DEF TallyIsExact
<1>10. FiguresAreLow'
  <2>1. r \notin records /\ records \subseteq Request
    BY <1>0 DEF FiguresAreLow
  <2>2. records' = {q \in Request : turn'[q] \in {"walked", "published"}}
    BY <1>0, <1>7 DEF FiguresAreLow
  <2>3. \A q, b : Recorded(q, b) => Recorded(q, b)'
    BY <1>0, <1>7, <2>1 DEF Recorded
  <2>4. \A b \in Client : \A q \in errorByLane'[b] : Recorded(q, b)'
    BY <1>0, <2>3 DEF FiguresAreLow
  <2>5. ASSUME NEW p \in Request, turn'[p] = "walked", NEW q \in own'[p]
        PROVE  Recorded(q, client[p])'
    <3>1. p # r /\ turn[p] = "walked" /\ own'[p] = own[p] /\ client'[p] = client[p]
      BY <1>0, <1>7, <2>5
    <3>2. Recorded(q, client[p])
      BY <3>1 DEF FiguresAreLow
    <3> QED BY <1>0, <1>7, <2>1, <3>1, <3>2 DEF Recorded
  <2> QED BY <2>2, <2>4, <2>5 DEF FiguresAreLow
<1>11. LaneIsItsOwn'
  <2>1. ASSUME NEW b \in Client, lane'[b] # "unseen"
        PROVE  \E q \in OfLane(Counted, b)' : prefix'[q] = lane'[b]
    <3>1. PICK q \in OfLane(Counted, b) : prefix[q] = lane[b]
      BY <1>0, <2>1 DEF LaneIsItsOwn
    <3>2. q \in Counted /\ client[q] = b /\ q \in Request /\ q # r
      BY <1>8 DEF OfLane, Counted
    <3> QED BY <1>0, <1>7, <1>8, <3>1, <3>2 DEF OfLane
  <2>2. \A q \in Request : turn'[q] \notin {"new", "refused"} => client'[q] \in Client
    BY <1>7 DEF LaneIsItsOwn
  <2> QED BY <2>1, <2>2 DEF LaneIsItsOwn
<1> QED BY <1>6, <1>9, <1>10, <1>11

\* A step of the bookkeeping changes no request, and moves one along.
LEMMA BookkeepingStep ==
  ASSUME GuardsInv, NEW r \in Request,
         observeShare(r) \/ observeNoUsage(r) \/ walkErrors(r) \/ publishErrors(r)
  PROVE  GuardsInv'
<1> USE DEF GuardsInv, RefusedForCause
<1>1. /\ UNCHANGED request /\ judged' = NotJudging /\ client[r] \in Client
      /\ \E s \in {"observed", "walked", "published", "ended"} : turn' = [turn EXCEPT ![r] = s]
  BY DEF observeShare, observeNoUsage, walkErrors, publishErrors, LaneIsItsOwn
<1>2. turn' \in [Request -> {"new", "upstream", "refused", "observed", "walked", "published",
                             "ended"}]
  BY <1>1 DEF GuardsTypeOK
<1>3. \A q \in Request \ {r} : turn'[q] = turn[q]
  BY <1>1 DEF GuardsTypeOK
<1>4. UNCHANGED <<client, prefix, errs>>
  BY <1>1 DEF request
<1>5. records \subseteq records'
  BY DEF observeShare, observeNoUsage, walkErrors, publishErrors
<1>6. \A q, b : Recorded(q, b) => Recorded(q, b)'
  BY <1>4, <1>5 DEF Recorded
<1>7. \A q \in Request : turn'[q] \notin {"new", "refused"} => client'[q] \in Client
  BY <1>1, <1>3, <1>4 DEF LaneIsItsOwn
<1>8. judged'.verdict = "none" /\ judged'.causes = {}
  BY <1>1 DEF NotJudging
<1>9. records \in SUBSET Request
  BY DEF FiguresAreLow
<1>10. CASE observeShare(r)
  <2>1. /\ turn[r] = "upstream" /\ turn' = [turn EXCEPT ![r] = "observed"]
        /\ lane' = [lane EXCEPT ![client[r]] = prefix[r]] /\ tally' = tally + 1
        /\ UNCHANGED <<records, own, errorByLane>>
    BY <1>10 DEF observeShare
  <2>2. Counted' = Counted \cup {r} /\ r \notin Counted /\ Counted \in SUBSET Request
    BY <2>1 DEF Counted, GuardsTypeOK
  <2>3. GuardsTypeOK'
    <3>1. prefix[r] \in PromptPrefix
      BY DEF GuardsTypeOK
    <3>2. lane' \in [Client -> PromptPrefix \cup {"unseen"}]
      <4>1. lane \in [Client -> PromptPrefix \cup {"unseen"}]
        BY DEF GuardsTypeOK
      <4> QED BY <2>1, <3>1, <4>1
    <3>3. tally' \in Nat
      <4>1. tally \in Nat
        BY DEF GuardsTypeOK
      <4>2. tally' = tally + 1
        BY <2>1
      <4> QED BY <4>1, <4>2, OneMore, Zenon
    <3> QED BY <1>2, <1>4, <1>8, <2>1, <3>2, <3>3 DEF GuardsTypeOK
  <2>4. TallyIsExact'
    BY <2>1, <2>2, GuardsFinite, FS_AddElement DEF TallyIsExact
  <2>5. FiguresAreLow'
    <3>1. records' = {q \in Request : turn'[q] \in {"walked", "published"}}
      BY <2>1 DEF FiguresAreLow, GuardsTypeOK
    <3>2. \A q \in Request : turn'[q] = "walked" => turn[q] = "walked"
      BY <2>1 DEF GuardsTypeOK
    <3>3. \A b \in Client : \A q \in errorByLane'[b] : Recorded(q, b)'
      BY <1>6, <2>1 DEF FiguresAreLow
    <3>4. ASSUME NEW p \in Request, turn'[p] = "walked", NEW q \in own'[p]
          PROVE  Recorded(q, client[p])'
      <4>1. Recorded(q, client[p])
        BY <2>1, <3>2, <3>4 DEF FiguresAreLow
      <4> QED BY <1>4, <1>5, <4>1 DEF Recorded
    <3> QED BY <3>1, <3>3, <3>4 DEF FiguresAreLow
  <2>6. LaneIsItsOwn'
    <3>1. ASSUME NEW b \in Client, lane'[b] # "unseen"
          PROVE  \E q \in OfLane(Counted, b)' : prefix'[q] = lane'[b]
      <4>1. CASE b = client[r]
        <5>1. lane'[b] = prefix[r] /\ r \in OfLane(Counted, b)'
          BY <1>4, <2>1, <2>2, <4>1 DEF GuardsTypeOK, OfLane
        <5> QED BY <1>4, <5>1
      <4>2. CASE b # client[r]
        <5>1. lane'[b] = lane[b]
          BY <2>1, <4>2 DEF GuardsTypeOK
        <5>2. PICK q \in OfLane(Counted, b) : prefix[q] = lane[b]
          BY <3>1, <5>1 DEF LaneIsItsOwn
        <5>3. q \in OfLane(Counted, b)'
          BY <1>4, <2>2 DEF OfLane
        <5> QED BY <1>4, <5>1, <5>2, <5>3
      <4> QED BY <4>1, <4>2
    <3> QED BY <1>7, <3>1 DEF LaneIsItsOwn
  <2> QED BY <1>8, <2>3, <2>4, <2>5, <2>6
<1>11. CASE observeNoUsage(r)
  <2>1. /\ turn[r] = "upstream" /\ turn' = [turn EXCEPT ![r] = "ended"]
        /\ UNCHANGED <<lane, tally, records, own, errorByLane>>
    BY <1>11 DEF observeNoUsage
  <2>2. Counted' = Counted
    BY <2>1 DEF Counted, GuardsTypeOK
  <2>3. GuardsTypeOK'
    BY <1>2, <1>4, <1>8, <2>1 DEF GuardsTypeOK
  <2>4. TallyIsExact'
    BY <2>1, <2>2 DEF TallyIsExact
  <2>5. FiguresAreLow'
    <3>1. records' = {q \in Request : turn'[q] \in {"walked", "published"}}
      BY <2>1 DEF FiguresAreLow, GuardsTypeOK
    <3>2. \A q \in Request : turn'[q] = "walked" => turn[q] = "walked"
      BY <2>1 DEF GuardsTypeOK
    <3>3. \A b \in Client : \A q \in errorByLane'[b] : Recorded(q, b)'
      BY <1>6, <2>1 DEF FiguresAreLow
    <3>4. ASSUME NEW p \in Request, turn'[p] = "walked", NEW q \in own'[p]
          PROVE  Recorded(q, client[p])'
      <4>1. Recorded(q, client[p])
        BY <2>1, <3>2, <3>4 DEF FiguresAreLow
      <4> QED BY <1>4, <1>5, <4>1 DEF Recorded
    <3> QED BY <3>1, <3>3, <3>4 DEF FiguresAreLow
  <2>6. LaneIsItsOwn'
    BY <1>4, <1>7, <2>1, <2>2 DEF LaneIsItsOwn, OfLane
  <2> QED BY <1>8, <2>3, <2>4, <2>5, <2>6
<1>12. CASE walkErrors(r)
  <2> DEFINE all == records \cup {r}
  <2>1. /\ turn[r] = "observed" /\ turn' = [turn EXCEPT ![r] = "walked"]
        /\ records' = all /\ own' = [own EXCEPT ![r] = ErrorsOf(OfLane(all, client[r]))]
        /\ UNCHANGED <<lane, tally, errorByLane>>
    BY <1>12 DEF walkErrors
  <2>2. Counted' = Counted
    BY <2>1 DEF Counted, GuardsTypeOK
  <2>3. GuardsTypeOK'
    <3>1. ErrorsOf(OfLane(all, client[r])) \in SUBSET Request
      BY <1>9 DEF ErrorsOf, OfLane
    <3>2. own' \in [Request -> SUBSET Request] /\ records' \in SUBSET Request
      BY <1>9, <2>1, <3>1 DEF GuardsTypeOK
    <3> QED BY <1>2, <1>4, <1>8, <2>1, <3>2 DEF GuardsTypeOK
  <2>4. TallyIsExact'
    BY <2>1, <2>2 DEF TallyIsExact
  <2>5. FiguresAreLow'
    <3>1. records' = {q \in Request : turn'[q] \in {"walked", "published"}}
      BY <2>1 DEF FiguresAreLow, GuardsTypeOK
    <3>2. \A b \in Client : \A q \in errorByLane'[b] : Recorded(q, b)'
      BY <1>6, <2>1 DEF FiguresAreLow
    <3>3. ASSUME NEW p \in Request, turn'[p] = "walked", NEW q \in own'[p]
          PROVE  Recorded(q, client[p])'
      <4>1. CASE p = r
        <5>1. own'[p] = ErrorsOf(OfLane(all, client[r]))
          BY <2>1, <4>1 DEF GuardsTypeOK
        <5>2. q \in all /\ client[q] = client[r] /\ errs[q] = 1
          BY <3>3, <5>1 DEF ErrorsOf, OfLane
        <5> QED BY <1>4, <2>1, <4>1, <5>2 DEF Recorded
      <4>2. CASE p # r
        <5>1. own'[p] = own[p] /\ turn[p] = "walked"
          BY <1>3, <2>1, <3>3, <4>2 DEF GuardsTypeOK
        <5>2. Recorded(q, client[p])
          BY <3>3, <5>1 DEF FiguresAreLow
        <5> QED BY <1>4, <1>5, <5>2 DEF Recorded
      <4> QED BY <4>1, <4>2
    <3> QED BY <3>1, <3>2, <3>3 DEF FiguresAreLow
  <2>6. LaneIsItsOwn'
    BY <1>4, <1>7, <2>1, <2>2 DEF LaneIsItsOwn, OfLane
  <2> QED BY <1>8, <2>3, <2>4, <2>5, <2>6
<1>13. CASE publishErrors(r)
  <2>1. /\ turn[r] = "walked" /\ turn' = [turn EXCEPT ![r] = "published"]
        /\ errorByLane' = [errorByLane EXCEPT ![client[r]] = own[r]]
        /\ own' = [own EXCEPT ![r] = {}] /\ UNCHANGED <<lane, tally, records>>
    BY <1>13 DEF publishErrors
  <2>2. Counted' = Counted
    BY <2>1 DEF Counted, GuardsTypeOK
  <2>3. GuardsTypeOK'
    BY <1>2, <1>4, <1>8, <2>1 DEF GuardsTypeOK
  <2>4. TallyIsExact'
    BY <2>1, <2>2 DEF TallyIsExact
  <2>5. FiguresAreLow'
    <3>1. records' = {q \in Request : turn'[q] \in {"walked", "published"}}
      BY <2>1 DEF FiguresAreLow, GuardsTypeOK
    <3>2. ASSUME NEW p \in Request, turn'[p] = "walked", NEW q \in own'[p]
          PROVE  Recorded(q, client[p])'
      <4>1. p # r /\ turn[p] = "walked" /\ own'[p] = own[p]
        BY <2>1, <3>2 DEF GuardsTypeOK
      <4>2. Recorded(q, client[p])
        BY <3>2, <4>1 DEF FiguresAreLow
      <4> QED BY <1>4, <1>5, <4>2 DEF Recorded
    <3>3. ASSUME NEW b \in Client, NEW q \in errorByLane'[b] PROVE Recorded(q, b)'
      <4>1. \A x \in own[r] : Recorded(x, client[r])
        BY <2>1 DEF FiguresAreLow
      <4>2. errorByLane'[b] = IF b = client[r] THEN own[r] ELSE errorByLane[b]
        BY <2>1 DEF GuardsTypeOK
      <4> QED BY <1>6, <3>3, <4>1, <4>2 DEF FiguresAreLow
    <3> QED BY <3>1, <3>2, <3>3 DEF FiguresAreLow
  <2>6. LaneIsItsOwn'
    BY <1>4, <1>7, <2>1, <2>2 DEF LaneIsItsOwn, OfLane
  <2> QED BY <1>8, <2>3, <2>4, <2>5, <2>6
<1> QED BY <1>10, <1>11, <1>12, <1>13

\* Whatever the session's requests do while a guard reads their figures, it
\* refuses a request only for an error share the session really has, a run of
\* calls that really ends the prompt, or a prefix its own lane really changed,
\* and it lets no loop and no settled overdraft pass (Server.guard).
THEOREM NobodyIsRefusedWithoutCause == GuardsSpec => []RefusedForCause
<1>1. GuardsInit => GuardsInv
  BY GuardsInitInv
<1>2. GuardsInv /\ [GuardsNext]_guardsVars => GuardsInv'
  <2> SUFFICES ASSUME GuardsInv, [GuardsNext]_guardsVars PROVE GuardsInv'
    OBVIOUS
  <2>1. CASE GuardsNext
    <3>1. PICK r \in Request :
            \/ observeShare(r) \/ observeNoUsage(r) \/ walkErrors(r) \/ publishErrors(r)
            \/ \E a \in Client, h \in PromptPrefix, e \in {0, 1}, cs \in Conversations,
                  override \in BOOLEAN : guard(r, a, h, e, cs, override)
      BY <2>1 DEF GuardsNext
    <3>2. CASE \E a \in Client, h \in PromptPrefix, e \in {0, 1}, cs \in Conversations,
                  override \in BOOLEAN : guard(r, a, h, e, cs, override)
      BY <3>2, GuardStep
    <3> QED BY <3>1, <3>2, BookkeepingStep
  <2>2. CASE UNCHANGED guardsVars
    <3>1. UNCHANGED <<turn, client, prefix, errs, judged, lane, tally, records, own, errorByLane>>
      BY <2>2 DEF guardsVars, request
    <3>2. RefusedForCause'
      BY <3>1 DEF GuardsInv, RefusedForCause, GuardsTypeOK
    <3>3. TallyIsExact' /\ LaneIsItsOwn'
      BY <3>1 DEF GuardsInv, TallyIsExact, LaneIsItsOwn, Counted, OfLane
    <3>4. FiguresAreLow'
      BY <3>1 DEF GuardsInv, FiguresAreLow, Recorded
    <3> QED BY <3>2, <3>3, <3>4 DEF GuardsInv
  <2> QED BY <2>1, <2>2
<1>3. GuardsInv => RefusedForCause
  BY DEF GuardsInv
<1> QED BY <1>1, <1>2, <1>3, PTL DEF GuardsSpec

-----------------------------------------------------------------------------
(***************************************************************************)
(* The lanes.  The overlap flag is set from the open set of one            *)
(* sessionState, and a session that is evicted and admitted again has      *)
(* another one.  So the invariant follows the state a request entered:     *)
(* unless its session was evicted under a request in flight, that state is *)
(* the one in the table.                                                   *)
(***************************************************************************)

LEMMA LeastNumber ==
    ASSUME NEW T \in SUBSET Nat, T # {}
    PROVE  \E m \in T : \A n \in T : m <= n
  <1>1. PICK m \in T : \A n \in T : <<n, m>> \notin OpToRel(<, Nat)
    BY WFMin, NatLessThanWellFounded, Zenon
  <1>2. \A n \in T : ~ (n < m)
    <2> SUFFICES ASSUME NEW n \in T, n < m PROVE FALSE
      OBVIOUS
    <2>1. <<n, m>> \in OpToRel(<, Nat)
      BY Zenon DEF OpToRel
    <2> QED
      BY <1>1, <2>1
  <1> QED
    BY <1>2

LEMMA ObjFacts == Obj \subseteq Nat \ {0} /\ NoObj = 0
  <1>1. Cardinality(Req) \in Nat
    BY LanesAssumption, FS_CardinalityType
  <1> QED
    BY <1>1 DEF Obj, NoObj

-----------------------------------------------------------------------------
(* The table of sessions. *)

TableSound ==
    /\ admittedSeq \in Obj \cup {NoObj} /\ torn \subseteq Session
    /\ table \in [Session -> Obj \cup {NoObj}] /\ lastSeen \in [Obj -> Nat]
    /\ IsFiniteSet(Live) /\ Cardinality(Live) <= MaxSessions
    /\ \A s, t \in Live : table[s] = table[t] => s = t
    /\ \A s \in Session : table[s] <= admittedSeq

\* A full table has an oldest session: the order compares two numbers, and the
\* second of them is a session's own.
LEMMA SomeOldest ==
    ASSUME TableSound, Live # {} PROVE \E s \in Live : Oldest(s)
  <1> USE ObjFacts DEF TableSound
  <1>1. \A s \in Live : table[s] \in Obj /\ table[s] \in Nat /\ lastSeen[table[s]] \in Nat
    BY DEF Live
  <1> DEFINE ages == {lastSeen[table[s]] : s \in Live}
  <1>a. ages \in SUBSET Nat /\ ages # {}
    BY <1>1
  <1>2. PICK m \in ages : \A n \in ages : m <= n
    BY <1>a, LeastNumber
  <1> DEFINE eldest == {s \in Live : lastSeen[table[s]] = m}
             ids == {table[s] : s \in eldest}
  <1>3. ids # {} /\ ids \in SUBSET Nat
    BY <1>1, <1>2
  <1>4. PICK i \in ids : \A j \in ids : i <= j
    BY <1>3, LeastNumber
  <1>5. PICK s \in eldest : i = table[s]
    BY <1>4
  <1>6. ASSUME NEW t \in Live
        PROVE  \/ lastSeen[table[s]] < lastSeen[table[t]]
               \/ lastSeen[table[s]] = lastSeen[table[t]] /\ table[s] <= table[t]
    <2>1. lastSeen[table[s]] = m /\ m \in Nat /\ lastSeen[table[t]] \in Nat
      BY <1>1, <1>2, <1>5
    <2>2. m <= lastSeen[table[t]]
      BY <1>2
    <2>3. CASE lastSeen[table[t]] = m
      <3>1. table[t] \in ids
        BY <2>3
      <3> QED
        BY <1>4, <1>5, <2>1, <2>3, <3>1
    <2> QED
      BY <2>1, <2>2, <2>3
  <1>7. s \in Live
    BY <1>5
  <1> QED
    BY <1>6, <1>7 DEF Oldest

\* The table after a lookup: within its bound, one state for each session, and
\* a session that was evicted under a request in flight is remembered as torn.
LEMMA SessionStep ==
    ASSUME TableSound, NEW s \in Session, NEW o \in Obj, NEW touched \in Nat,
           session(s, o, touched)
    PROVE  /\ TableSound'
           /\ s \in Live => o = table[s]
           /\ torn \subseteq torn'
           /\ table'[s] = o
           /\ \A t \in Session \ {s} :
                table'[t] = table[t] \/ ((\E q \in Req : sess[q] = t /\ InLane(q)) => t \in torn')
  <1> USE ObjFacts
  <1>1. /\ o = IF s \in Live THEN table[s] ELSE admittedSeq + 1
        /\ admittedSeq' = IF s \in Live THEN admittedSeq ELSE o
        /\ table' = [t \in Session |-> IF t = s THEN o
                                       ELSE IF t \in Evicted(s) THEN NoObj ELSE table[t]]
        /\ lastSeen' = [lastSeen EXCEPT ![o] = touched]
        /\ torn' = torn \cup {t \in Evicted(s) : \E q \in Req : sess[q] = t /\ InLane(q)}
    BY DEF session
  <1>2. Evicted(s) \subseteq Live /\ s \notin Evicted(s) /\ (s \in Live => Evicted(s) = {})
    BY DEF Evicted
  <1>3. Live \subseteq Session
    BY DEF Live
  <1>4. Live' = (Live \ Evicted(s)) \cup {s}
    BY <1>1, <1>2, <1>3 DEF Live, TableSound
  <1>5. admittedSeq \in Nat /\ MaxSessions \in Nat \ {0} /\ Cardinality(Live) \in Nat
    BY LanesAssumption, FS_CardinalityType DEF TableSound
  <1>6. IsFiniteSet(Live') /\ Cardinality(Live') <= MaxSessions
    <2>1. CASE s \in Live
      <3>1. Live' = Live
        BY <1>2, <1>4, <2>1
      <3> QED
        BY <3>1 DEF TableSound
    <2>2. CASE s \notin Live /\ Cardinality(Live) < MaxSessions
      <3>1. Live' = Live \cup {s}
        BY <1>4, <2>2 DEF Evicted
      <3>2. IsFiniteSet(Live \cup {s}) /\ Cardinality(Live \cup {s}) = Cardinality(Live) + 1
        BY <2>2, FS_AddElement DEF TableSound
      <3> QED
        BY <1>5, <2>2, <3>1, <3>2
    <2>3. CASE s \notin Live /\ ~(Cardinality(Live) < MaxSessions)
      <3>1. Live # {}
        BY <1>5, <2>3, FS_EmptySet
      <3>2. PICK t \in Live : Oldest(t)
        BY <3>1, SomeOldest
      <3>3. t \in Evicted(s)
        BY <2>3, <3>2 DEF Evicted
      <3>4. IsFiniteSet(Live \ {t}) /\ Cardinality(Live \ {t}) = Cardinality(Live) - 1
        BY FS_RemoveElement DEF TableSound
      <3>5. Live \ Evicted(s) \in SUBSET (Live \ {t})
        BY <3>3
      <3>6. /\ IsFiniteSet(Live \ Evicted(s))
            /\ Cardinality(Live \ Evicted(s)) <= Cardinality(Live) - 1
        BY <3>4, <3>5, FS_Subset
      <3>7. Cardinality(Live \ Evicted(s)) \in Nat
        BY <3>6, FS_CardinalityType
      <3>a. s \notin Live \ Evicted(s)
        BY <2>3
      <3>8. /\ IsFiniteSet((Live \ Evicted(s)) \cup {s})
            /\ Cardinality((Live \ Evicted(s)) \cup {s}) = Cardinality(Live \ Evicted(s)) + 1
        BY <3>6, <3>a, FS_AddElement
      <3> QED
        BY <1>4, <1>5, <3>6, <3>7, <3>8 DEF TableSound
    <2> QED
      BY <2>1, <2>2, <2>3
  <1>7. table' \in [Session -> Obj \cup {NoObj}] /\ lastSeen' \in [Obj -> Nat]
    BY <1>1 DEF TableSound
  <1>8. admittedSeq' \in Obj \cup {NoObj} /\ torn' \subseteq Session
    BY <1>1, <1>2, <1>3 DEF TableSound
  <1>9. o \in Nat /\ admittedSeq <= admittedSeq' /\ o <= admittedSeq'
    <2>1. CASE s \in Live
      BY <1>1, <1>5, <2>1 DEF TableSound
    <2>2. CASE s \notin Live
      BY <1>1, <1>5, <2>2
    <2> QED
      BY <2>1, <2>2
  <1>10. \A t \in Session \ {s} : table'[t] = table[t] \/ table'[t] = NoObj
    BY <1>1
  <1>11. table'[s] = o
    BY <1>1
  <1>12. \A t \in Session : table[t] \in Nat /\ table[t] <= admittedSeq /\ table'[t] \in Nat
    <2>1. \A x \in Obj \cup {NoObj} : x \in Nat
      OBVIOUS
    <2>2. \A t \in Session : table[t] \in Obj \cup {NoObj} /\ table[t] <= admittedSeq
      BY DEF TableSound
    <2>3. \A t \in Session : table'[t] \in Obj \cup {NoObj}
      BY <1>7
    <2> QED
      BY <2>1, <2>2, <2>3
  <1>13. admittedSeq' \in Nat
    BY <1>8
  <1>14. \A t \in Session : table'[t] <= admittedSeq'
    BY <1>5, <1>9, <1>10, <1>11, <1>12, <1>13
  <1>15. ASSUME NEW t \in Live', NEW u \in Live', table'[t] = table'[u] PROVE t = u
    <2>1. t \in Session /\ u \in Session /\ table'[t] # NoObj /\ table'[u] # NoObj
      BY <1>15 DEF Live
    <2>2. ASSUME NEW v \in Session \ {s}, table'[v] # NoObj PROVE v \in Live /\ table'[v] = table[v] /\ table[v] # o
      <3>1. v \in Live /\ table'[v] = table[v]
        BY <1>10, <2>2 DEF Live
      <3>2. CASE s \in Live
        <4>1. o = table[s]
          BY <1>1, <3>2
        <4> QED
          BY <2>2, <3>1, <3>2, <4>1 DEF TableSound
      <3>3. CASE s \notin Live
        <4>1. o = admittedSeq + 1
          BY <1>1, <3>3
        <4> QED
          BY <1>5, <1>12, <3>1, <4>1
      <3> QED
        BY <3>1, <3>2, <3>3
    <2>3. CASE t = s \/ u = s
      BY <1>11, <1>15, <2>1, <2>2, <2>3
    <2>4. CASE t # s /\ u # s
      BY <1>15, <2>1, <2>2, <2>4 DEF TableSound
    <2> QED
      BY <2>3, <2>4
  <1>16. TableSound'
    <2>1. \A t, u \in Live' : table'[t] = table'[u] => t = u
      BY <1>15
    <2> QED
      BY <1>6, <1>7, <1>8, <1>14, <2>1 DEF TableSound, Obj, Live
  <1>17. \A t \in Session \ {s} :
            table'[t] = table[t] \/ ((\E q \in Req : sess[q] = t /\ InLane(q)) => t \in torn')
    BY <1>1
  <1> QED
    BY <1>1, <1>11, <1>16, <1>17

-----------------------------------------------------------------------------
(* The requests in their lanes. *)

Begun(r) == pc[r] \notin {"new", "arrived"}

\* The state a request entered is the one in the table, unless its session was
\* evicted under a request in flight.
HomeIsTable ==
    \A r \in Req : InLane(r) => /\ home[r] \in Obj
                                /\ sess[r] \notin torn => table[sess[r]] = home[r]

\* The order of entering is that of the numbers given.
EnteredInOrder ==
    \A r \in Req : /\ entered[r] > 0 <=> Begun(r)
                   /\ entered[r] <= Cardinality({q \in Req : entered[q] > 0})

ScoresAState == \A r \in Req : pc[r] \in {"score", "publish"} => score[r] \in Obj

\* Whoever was joined, or joined another, knows.
JoinedKnows == \A r \in Req : r \notin alone /\ sess[r] \notin torn => r \in overlapped

\* Nobody can be marked before the end of their response, and nobody's lonely
\* time ends after it.
MarkedLate == \A r \in Req : mark[r] = "serial" => Begun(r) /\ pc[r] # "upstream"

\* A request that may still be marked serial, or was, found nobody unobserved.
FoundItSettled ==
    \A r, q \in Req :
        (/\ SameLane(r, q) /\ sess[r] \notin torn
         /\ 0 < entered[q] /\ entered[q] < entered[r]
         /\ (pc[r] = "upstream" /\ r \notin overlapped) \/ mark[r] = "serial") => Observed(q)

LanesInv ==
    /\ LanesTypeOK /\ TableSound /\ SerialIsTrue
    /\ HomeIsTable /\ EnteredInOrder /\ ScoresAState /\ JoinedKnows /\ MarkedLate
    /\ FoundItSettled

LEMMA LanesInitInv == LanesInit => LanesInv
  <1> SUFFICES ASSUME LanesInit PROVE LanesInv
    OBVIOUS
  <1> USE DEF LanesInit
  <1>1. Live = {}
    BY DEF Live
  <1>2. IsFiniteSet(Live) /\ Cardinality(Live) <= MaxSessions
    BY <1>1, FS_EmptySet, LanesAssumption
  <1>3. LanesTypeOK
    BY <1>1, <1>2 DEF LanesTypeOK, Steps, NoObj
  <1>4. TableSound
    BY <1>1, <1>2 DEF TableSound, NoObj
  <1>5. SerialIsTrue
    BY <1>3 DEF SerialIsTrue, OpenIsInFlight, SerialMeansAlone, SerialFollowsPredecessor, InLane
  <1>6. EnteredInOrder
    <2>1. {q \in Req : entered[q] > 0} = {}
      OBVIOUS
    <2>2. Cardinality({q \in Req : entered[q] > 0}) = 0
      BY <2>1, FS_EmptySet
    <2>3. \A r \in Req : entered[r] = 0 /\ pc[r] = "new"
      OBVIOUS
    <2> QED
      BY <2>2, <2>3 DEF EnteredInOrder, Begun
  <1> QED
    BY <1>3, <1>4, <1>5, <1>6 DEF LanesInv, HomeIsTable, ScoresAState, JoinedKnows, MarkedLate,
                                  FoundItSettled, InLane

\* A step that moves one request on without touching a table or a lane: who is
\* in a lane, at the provider or observed stays so.
LEMMA QuietStep ==
    ASSUME LanesInv, LanesTypeOK', ScoresAState',
           UNCHANGED <<tableVars, open, sess, agent, home, overlapped, mark, entered, alone>>,
           \A q \in Req : /\ InLane(q)' <=> InLane(q)
                          /\ Begun(q)' <=> Begun(q)
                          /\ pc'[q] = "upstream" <=> pc[q] = "upstream"
                          /\ Observed(q) => Observed(q)'
    PROVE  LanesInv'
  <1>1. TableSound'
    BY DEF LanesInv, TableSound, tableVars, Live, Obj
  <1>2. OpenIsInFlight'
    BY DEF LanesInv, SerialIsTrue, OpenIsInFlight, Obj
  <1>3. HomeIsTable' /\ EnteredInOrder' /\ JoinedKnows' /\ MarkedLate'
    BY DEF LanesInv, HomeIsTable, EnteredInOrder, JoinedKnows, MarkedLate, tableVars, Obj
  <1>4. SerialMeansAlone'
    BY DEF LanesInv, SerialIsTrue, SerialMeansAlone, tableVars
  <1>5. FoundItSettled'
    BY DEF LanesInv, FoundItSettled, SameLane, tableVars
  <1>6. SerialFollowsPredecessor'
    BY <1>5 DEF FoundItSettled, SerialFollowsPredecessor
  <1> QED
    BY <1>1, <1>2, <1>3, <1>4, <1>5, <1>6 DEF LanesInv, SerialIsTrue

\* A lookup finds the state that the requests of the session in flight entered,
\* and leaves those of other sessions where they are, or tears them.
LEMMA HomeKept ==
    ASSUME LanesInv, NEW s \in Session, NEW o \in Obj, NEW touched \in Nat,
           session(s, o, touched), NEW q \in Req, InLane(q), sess[q] \notin torn'
    PROVE  /\ home[q] \in Obj /\ table'[sess[q]] = home[q]
           /\ sess[q] = s => home[q] = o
  <1>0. TableSound /\ HomeIsTable /\ sess[q] \in Session
    BY DEF LanesInv, LanesTypeOK
  <1>1. /\ s \in Live => o = table[s]
        /\ torn \subseteq torn'
        /\ table'[s] = o
        /\ \A t \in Session \ {s} :
             table'[t] = table[t] \/ ((\E p \in Req : sess[p] = t /\ InLane(p)) => t \in torn')
    BY <1>0, SessionStep
  <1>2. home[q] \in Obj /\ table[sess[q]] = home[q]
    BY <1>0, <1>1 DEF HomeIsTable
  <1>3. sess[q] \in Live
    BY <1>0, <1>2, ObjFacts DEF Live
  <1> QED
    BY <1>0, <1>1, <1>2, <1>3

\* The steps that leave the table alone carry its soundness with them.
LEMMA TableKept ==
    ASSUME LanesInv, UNCHANGED tableVars PROVE TableSound'
  BY DEF LanesInv, TableSound, tableVars, Live, Obj

LEMMA EnterInv == ASSUME LanesInv, NEW r \in Req, enterLane(r) PROVE LanesInv'
  <1>1. PICK o \in Obj :
          LET others == open[o][agent[r]]
          IN /\ pc[r] = "arrived" /\ pc' = [pc EXCEPT ![r] = "upstream"]
             /\ session(sess[r], o, Seen(sess[r]))
             /\ overlapped' = IF others = {} THEN overlapped ELSE overlapped \cup others \cup {r}
             /\ open' = [open EXCEPT ![o][agent[r]] = @ \cup {r}]
             /\ home' = [home EXCEPT ![r] = o]
             /\ entered' = [entered EXCEPT ![r] = 1 + Cardinality({q \in Req : entered[q] > 0})]
             /\ alone' = alone \ UNION {{q, r} : q \in {p \in Req : pc[p] = "upstream" /\ SameLane(p, r)}}
             /\ UNCHANGED <<now, last, builder, covered, sess, agent, start, mark, score, mine>>
    BY DEF enterLane, Goto
  <1> DEFINE others == open[o][agent[r]]
             before == {q \in Req : entered[q] > 0}
  <1>2. LanesTypeOK /\ TableSound /\ sess[r] \in Session /\ agent[r] \in Agent
    BY DEF LanesInv, LanesTypeOK
  <1>3. Seen(sess[r]) \in Nat
    BY <1>2, ObjFacts DEF LanesTypeOK, Seen, Live
  <1>4. TableSound' /\ torn \subseteq torn' /\ table'[sess[r]] = o
    BY <1>1, <1>2, <1>3, SessionStep
  <1>5. others \subseteq Req /\ others = {q \in Req : InLane(q) /\ home[q] = o /\ agent[q] = agent[r]}
    BY <1>2 DEF LanesInv, SerialIsTrue, OpenIsInFlight
  <1>6. \A q \in Req : InLane(q) /\ sess[q] \notin torn' =>
          /\ home[q] \in Obj /\ table'[sess[q]] = home[q]
          /\ sess[q] = sess[r] => home[q] = o
    BY <1>1, <1>2, <1>3, HomeKept
  <1>7. \A q \in Req : InLane(q) /\ SameLane(q, r) /\ sess[q] \notin torn' =>
          q \in others /\ overlapped' = overlapped \cup others \cup {r}
    BY <1>1, <1>5, <1>6 DEF SameLane
  <1>8. /\ \A q \in Req \ {r} : pc'[q] = pc[q] /\ home'[q] = home[q] /\ entered'[q] = entered[q]
        /\ pc'[r] = "upstream" /\ home'[r] = o /\ entered'[r] = 1 + Cardinality(before)
    BY <1>1, <1>2 DEF LanesTypeOK
  <1>9. before \in SUBSET Req /\ IsFiniteSet(before) /\ Cardinality(before) \in Nat
    <2>1. before \in SUBSET Req
      OBVIOUS
    <2> QED
      BY <2>1, LanesAssumption, FS_Subset, FS_CardinalityType
  <1>10. r \notin before /\ mark[r] # "serial" /\ ~InLane(r) /\ ~Begun(r)
    BY <1>1 DEF LanesInv, EnteredInOrder, MarkedLate, InLane, Begun
  <1>11. overlapped \subseteq overlapped' /\ overlapped' \subseteq Req
    BY <1>1, <1>2, <1>5 DEF LanesTypeOK
  <1>12. LanesTypeOK'
    <2>1. open' \in [Obj -> [Agent -> SUBSET Req]]
      BY <1>1, <1>2 DEF LanesTypeOK
    <2>2. entered' \in [Req -> Nat]
      BY <1>1, <1>2, <1>9 DEF LanesTypeOK
    <2>3. pc' \in [Req -> Steps] /\ home' \in [Req -> Obj \cup {NoObj}]
      BY <1>1, <1>2 DEF LanesTypeOK, Steps
    <2>4. alone' \subseteq Req
      BY <1>1, <1>2 DEF LanesTypeOK
    <2> QED
      BY <1>1, <1>2, <1>4, <1>11, <2>1, <2>2, <2>3, <2>4 DEF LanesTypeOK, TableSound, Obj
  <1>13. OpenIsInFlight'
    <2> SUFFICES ASSUME NEW u \in Obj, NEW a \in Agent
                 PROVE  open'[u][a] = {q \in Req : InLane(q)' /\ home'[q] = u /\ agent'[q] = a}
      BY <1>12 DEF OpenIsInFlight, Obj
    <2>1. open[u][a] = {q \in Req : InLane(q) /\ home[q] = u /\ agent[q] = a}
      BY DEF LanesInv, SerialIsTrue, OpenIsInFlight
    <2>2. open'[u][a] = IF u = o /\ a = agent[r] THEN open[u][a] \cup {r} ELSE open[u][a]
      BY <1>1, <1>2 DEF LanesTypeOK
    <2>3. \A q \in Req \ {r} : InLane(q)' <=> InLane(q)
      BY <1>8 DEF InLane
    <2>4. InLane(r)' /\ agent' = agent
      BY <1>1, <1>8 DEF InLane
    <2> QED
      BY <1>8, <1>10, <2>1, <2>2, <2>3, <2>4
  <1>14. HomeIsTable'
    <2> SUFFICES ASSUME NEW q \in Req, InLane(q)'
                 PROVE  home'[q] \in Obj /\ (sess'[q] \notin torn' => table'[sess'[q]] = home'[q])
      BY DEF HomeIsTable, Obj
    <2>1. CASE q = r
      BY <1>1, <1>4, <1>8, <2>1
    <2>2. CASE q # r
      <3>1. InLane(q) /\ home'[q] = home[q]
        BY <1>8, <2>2 DEF InLane
      <3> QED
        BY <1>1, <1>6, <3>1 DEF LanesInv, HomeIsTable
    <2> QED
      BY <2>1, <2>2
  <1>15. EnteredInOrder'
    <2>1. {q \in Req : entered'[q] > 0} = before \cup {r}
      BY <1>8, <1>9
    <2>2. Cardinality(before \cup {r}) = Cardinality(before) + 1
      BY <1>9, <1>10, FS_AddElement
    <2>3. ASSUME NEW q \in Req
          PROVE  /\ entered'[q] > 0 <=> Begun(q)'
                 /\ entered'[q] <= Cardinality(before) + 1
      <3>1. CASE q = r
        BY <1>8, <1>9, <3>1 DEF Begun
      <3>2. CASE q # r
        <4>1. entered[q] \in Nat /\ (entered[q] > 0 <=> Begun(q)) /\ entered[q] <= Cardinality(before)
          BY <1>2 DEF LanesInv, LanesTypeOK, EnteredInOrder
        <4> QED
          BY <1>8, <1>9, <3>2, <4>1 DEF Begun
      <3> QED
        BY <3>1, <3>2
    <2> QED
      BY <2>1, <2>2, <2>3 DEF EnteredInOrder
  <1>16. ScoresAState' /\ MarkedLate'
    BY <1>1, <1>8, <1>10 DEF LanesInv, ScoresAState, MarkedLate, Begun, Obj
  <1>17. \A x \in alone \ alone' :
            \E p \in Req : pc[p] = "upstream" /\ SameLane(p, r) /\ (x = p \/ x = r)
    BY <1>1
  <1>18. JoinedKnows'
    <2> SUFFICES ASSUME NEW x \in Req, x \notin alone', sess[x] \notin torn'
                 PROVE  x \in overlapped'
      BY <1>1 DEF JoinedKnows
    <2>1. CASE x \notin alone
      BY <1>4, <1>11, <2>1 DEF LanesInv, JoinedKnows
    <2>2. CASE x \in alone
      <3>1. PICK p \in Req : pc[p] = "upstream" /\ SameLane(p, r) /\ (x = p \/ x = r)
        BY <1>17, <2>2
      <3>2. InLane(p) /\ sess[p] = sess[x]
        BY <3>1 DEF InLane, SameLane
      <3> QED
        BY <1>7, <3>1, <3>2
    <2> QED
      BY <2>1, <2>2
  <1>19. SerialMeansAlone'
    <2> SUFFICES ASSUME NEW x \in Req, mark[x] = "serial", sess[x] \notin torn'
                 PROVE  x \in alone'
      BY <1>1 DEF SerialMeansAlone
    <2>1. x \in alone /\ x # r /\ pc[x] # "upstream"
      BY <1>4, <1>10 DEF LanesInv, SerialIsTrue, SerialMeansAlone, MarkedLate
    <2> QED
      BY <1>17, <2>1
  <1>20. FoundItSettled'
    <2> SUFFICES ASSUME NEW x \in Req, NEW q \in Req, SameLane(x, q), sess[x] \notin torn',
                        0 < entered'[q], entered'[q] < entered'[x],
                        (pc'[x] = "upstream" /\ x \notin overlapped') \/ mark[x] = "serial"
                 PROVE  Observed(q)'
      BY <1>1 DEF FoundItSettled, SameLane
    <2>1. CASE x = r
      <3>1. q # r /\ r \notin overlapped'
        BY <1>8, <1>9, <1>10, <2>1
      <3>2. Begun(q) /\ pc'[q] = pc[q]
        BY <1>8, <3>1 DEF LanesInv, EnteredInOrder
      <3>3. ~InLane(q)
        BY <1>7, <2>1, <3>1 DEF SameLane
      <3>4. pc[q] \in Steps
        BY <1>2 DEF LanesTypeOK
      <3> QED
        BY <3>2, <3>3, <3>4 DEF Begun, InLane, Observed, Steps
    <2>2. CASE x # r /\ q = r
      <3>1. entered[x] \in Nat /\ entered[x] <= Cardinality(before)
        BY <1>2 DEF LanesInv, LanesTypeOK, EnteredInOrder
      <3> QED
        BY <1>8, <1>9, <2>2, <3>1
    <2>3. CASE x # r /\ q # r
      BY <1>4, <1>8, <1>11, <2>3 DEF LanesInv, FoundItSettled, Observed
    <2> QED
      BY <2>1, <2>2, <2>3
  <1>21. SerialFollowsPredecessor'
    BY <1>20 DEF FoundItSettled, SerialFollowsPredecessor
  <1> QED
    BY <1>4, <1>12, <1>13, <1>14, <1>15, <1>16, <1>18, <1>19, <1>20, <1>21
       DEF LanesInv, SerialIsTrue

LEMMA CorrelationInv == ASSUME LanesInv, NEW r \in Req, correlation(r) PROVE LanesInv'
  <1>1. /\ pc[r] = "upstream" /\ pc' = [pc EXCEPT ![r] = "marked"]
        /\ mark' = [mark EXCEPT ![r] = IF r \in overlapped THEN "overlap" ELSE "serial"]
        /\ UNCHANGED <<now, tableVars, laneVars, sess, agent, start, home, overlapped,
                       score, mine, entered, alone>>
    BY DEF correlation, Goto
  <1>2. UNCHANGED <<table, admittedSeq, lastSeen, torn, open, last, builder, covered>>
    BY <1>1 DEF tableVars, laneVars
  <1>3. LanesTypeOK /\ TableSound'
    BY <1>1, TableKept DEF LanesInv
  <1>4. /\ \A q \in Req \ {r} : pc'[q] = pc[q] /\ mark'[q] = mark[q]
        /\ pc'[r] = "marked" /\ mark'[r] = IF r \in overlapped THEN "overlap" ELSE "serial"
    BY <1>1, <1>3 DEF LanesTypeOK
  <1>5. LanesTypeOK'
    <2>1. pc' \in [Req -> Steps] /\ mark' \in [Req -> {"none", "serial", "overlap"}]
      BY <1>1, <1>3 DEF LanesTypeOK, Steps
    <2> QED
      BY <1>1, <1>2, <1>3, <2>1 DEF LanesTypeOK, Obj, Live
  <1>6. \A q \in Req : (InLane(q)' <=> InLane(q)) /\ (Begun(q)' <=> Begun(q)) /\ (Observed(q)' <=> Observed(q))
    BY <1>1, <1>4 DEF InLane, Begun, Observed
  <1>7. OpenIsInFlight'
    BY <1>1, <1>2, <1>5, <1>6 DEF LanesInv, SerialIsTrue, OpenIsInFlight, Obj
  <1>8. HomeIsTable' /\ EnteredInOrder' /\ JoinedKnows'
    BY <1>1, <1>2, <1>6 DEF LanesInv, HomeIsTable, EnteredInOrder, JoinedKnows, Obj
  <1>9. ScoresAState'
    BY <1>1, <1>4 DEF LanesInv, ScoresAState, Obj
  <1>10. MarkedLate'
    BY <1>4, <1>6 DEF LanesInv, MarkedLate, Begun
  <1>11. SerialMeansAlone'
    BY <1>1, <1>2, <1>4 DEF LanesInv, SerialIsTrue, SerialMeansAlone, JoinedKnows
  <1>12. FoundItSettled'
    BY <1>1, <1>2, <1>4, <1>6 DEF LanesInv, FoundItSettled, SameLane
  <1>13. SerialFollowsPredecessor'
    BY <1>12 DEF FoundItSettled, SerialFollowsPredecessor
  <1> QED
    BY <1>3, <1>5, <1>7, <1>8, <1>9, <1>10, <1>11, <1>12, <1>13 DEF LanesInv, SerialIsTrue

LEMMA ObserveInv == ASSUME LanesInv, NEW r \in Req, observe(r) PROVE LanesInv'
  <1>1. PICK o \in Obj :
          /\ pc[r] = "marked" /\ pc' = [pc EXCEPT ![r] = "observed"]
          /\ session(sess[r], o, start[r])
          /\ last' = [last EXCEPT ![o][agent[r]] = r]
          /\ UNCHANGED <<now, open, builder, covered, reqVars>>
    BY DEF observe, Goto
  <1>2. UNCHANGED <<now, open, builder, covered, sess, agent, start, home, overlapped, mark,
                    score, mine, entered, alone>>
    BY <1>1 DEF reqVars
  <1>3. LanesTypeOK /\ TableSound /\ sess[r] \in Session /\ start[r] \in Nat
    BY DEF LanesInv, LanesTypeOK
  <1>4. TableSound' /\ torn \subseteq torn'
    BY <1>1, <1>3, SessionStep
  <1>5. \A q \in Req : InLane(q) /\ sess[q] \notin torn' =>
          home[q] \in Obj /\ table'[sess[q]] = home[q]
    BY <1>1, <1>3, HomeKept
  <1>6. (\A q \in Req \ {r} : pc'[q] = pc[q]) /\ pc'[r] = "observed"
    BY <1>1, <1>3 DEF LanesTypeOK
  <1>7. LanesTypeOK'
    <2>1. pc' \in [Req -> Steps] /\ last' \in [Obj -> [Agent -> Req \cup {Nobody}]]
      BY <1>1, <1>3 DEF LanesTypeOK, Steps
    <2> QED
      BY <1>2, <1>3, <1>4, <2>1 DEF LanesTypeOK, TableSound, Obj
  <1>8. \A q \in Req : /\ (InLane(q)' <=> InLane(q)) /\ (Begun(q)' <=> Begun(q))
                       /\ Observed(q) => Observed(q)'
                       /\ pc'[q] = "upstream" <=> pc[q] = "upstream"
    BY <1>1, <1>6 DEF InLane, Begun, Observed
  <1>9. OpenIsInFlight'
    BY <1>2, <1>7, <1>8 DEF LanesInv, SerialIsTrue, OpenIsInFlight, Obj
  <1>10. HomeIsTable'
    BY <1>2, <1>5, <1>8 DEF LanesInv, HomeIsTable, Obj
  <1>11. EnteredInOrder' /\ JoinedKnows' /\ MarkedLate'
    BY <1>2, <1>4, <1>8 DEF LanesInv, EnteredInOrder, JoinedKnows, MarkedLate
  <1>12. ScoresAState'
    BY <1>2, <1>6 DEF LanesInv, ScoresAState, Obj
  <1>13. SerialMeansAlone'
    BY <1>2, <1>4 DEF LanesInv, SerialIsTrue, SerialMeansAlone
  <1>14. FoundItSettled'
    BY <1>2, <1>4, <1>8 DEF LanesInv, FoundItSettled, SameLane
  <1>15. SerialFollowsPredecessor'
    BY <1>14 DEF FoundItSettled, SerialFollowsPredecessor
  <1> QED
    BY <1>4, <1>7, <1>9, <1>10, <1>11, <1>12, <1>13, <1>14, <1>15 DEF LanesInv, SerialIsTrue

LEMMA LeaveInv == ASSUME LanesInv, NEW r \in Req, leaveLane(r) PROVE LanesInv'
  <1>1. /\ pc[r] \in {"observed", "no usage"}
        /\ pc' = [pc EXCEPT ![r] = IF pc[r] = "observed" THEN "append" ELSE "done"]
        /\ open' = [open EXCEPT ![home[r]][agent[r]] = @ \ {r}]
        /\ UNCHANGED <<now, tableVars, last, builder, covered, reqVars>>
    BY DEF leaveLane, Goto
  <1>2. UNCHANGED <<table, admittedSeq, lastSeen, torn, sess, agent, start, home, overlapped,
                    mark, score, mine, entered, alone>>
    BY <1>1 DEF tableVars, reqVars
  <1>3. LanesTypeOK /\ TableSound' /\ InLane(r) /\ home[r] \in Obj /\ agent[r] \in Agent
    BY <1>1, TableKept DEF LanesInv, HomeIsTable, InLane, LanesTypeOK
  <1>4. (\A q \in Req \ {r} : pc'[q] = pc[q]) /\ pc'[r] \in {"append", "done"}
    BY <1>1, <1>3 DEF LanesTypeOK
  <1>5. LanesTypeOK'
    <2>1. pc' \in [Req -> Steps]
      BY <1>1, <1>3 DEF LanesTypeOK, Steps
    <2>2. open' \in [Obj -> [Agent -> SUBSET Req]]
      <3> DEFINE had == open[home[r]]
                 less == [had EXCEPT ![agent[r]] = @ \ {r}]
      <3>1. had \in [Agent -> SUBSET Req]
        BY <1>3 DEF LanesTypeOK
      <3>2. less \in [Agent -> SUBSET Req]
        BY <1>3, <3>1
      <3>3. open' = [open EXCEPT ![home[r]] = less]
        BY <1>1
      <3> HIDE DEF less
      <3> QED
        BY <1>3, <3>2, <3>3 DEF LanesTypeOK
    <2> QED
      BY <1>1, <1>2, <1>3, <2>1, <2>2 DEF LanesTypeOK, Obj, Live
  <1>6. \A q \in Req : /\ InLane(q)' <=> (InLane(q) /\ q # r)
                       /\ Begun(q)' <=> Begun(q)
                       /\ Observed(q) => Observed(q)'
                       /\ pc'[q] = "upstream" <=> pc[q] = "upstream"
    BY <1>1, <1>4 DEF InLane, Begun, Observed
  <1>7. OpenIsInFlight'
    <2> SUFFICES ASSUME NEW u \in Obj, NEW a \in Agent
                 PROVE  open'[u][a] = {q \in Req : InLane(q)' /\ home'[q] = u /\ agent'[q] = a}
      BY <1>5 DEF OpenIsInFlight, Obj
    <2>1. open[u][a] = {q \in Req : InLane(q) /\ home[q] = u /\ agent[q] = a}
      BY DEF LanesInv, SerialIsTrue, OpenIsInFlight
    <2>2. open'[u][a] = IF u = home[r] /\ a = agent[r] THEN open[u][a] \ {r} ELSE open[u][a]
      BY <1>1, <1>3 DEF LanesTypeOK
    <2> QED
      BY <1>2, <1>6, <2>1, <2>2
  <1>8. HomeIsTable'
    BY <1>2, <1>6 DEF LanesInv, HomeIsTable, Obj
  <1>9. EnteredInOrder' /\ JoinedKnows' /\ MarkedLate'
    BY <1>2, <1>6 DEF LanesInv, EnteredInOrder, JoinedKnows, MarkedLate
  <1>10. ScoresAState'
    BY <1>2, <1>4 DEF LanesInv, ScoresAState, Obj
  <1>11. SerialMeansAlone'
    BY <1>2 DEF LanesInv, SerialIsTrue, SerialMeansAlone
  <1>12. FoundItSettled'
    BY <1>2, <1>6 DEF LanesInv, FoundItSettled, SameLane
  <1>13. SerialFollowsPredecessor'
    BY <1>12 DEF FoundItSettled, SerialFollowsPredecessor
  <1> QED
    BY <1>3, <1>5, <1>7, <1>8, <1>9, <1>10, <1>11, <1>12, <1>13 DEF LanesInv, SerialIsTrue

LEMMA LanesStepInv == ASSUME LanesInv, [LanesNext]_lanesVars PROVE LanesInv'
  <1>t. LanesTypeOK /\ ScoresAState
    BY DEF LanesInv
  <1> USE DEF tableVars, laneVars, reqVars, Goto
  <1>1. CASE UNCHANGED lanesVars
    <2>1. LanesTypeOK' /\ ScoresAState'
      BY <1>1, <1>t DEF lanesVars, LanesTypeOK, ScoresAState, Obj, Live
    <2> QED
      BY <1>1, <2>1, QuietStep DEF lanesVars, InLane, Begun, Observed
  <1>2. ASSUME NEW r \in Req, Arrive(r) PROVE LanesInv'
    <2>1. now' \in Nat /\ start' \in [Req -> Nat]
      BY <1>2, <1>t DEF Arrive, LanesTypeOK
    <2>p. pc' \in [Req -> Steps]
      BY <1>2, <1>t DEF Arrive, LanesTypeOK, Steps
    <2>2. LanesTypeOK'
      BY <1>2, <1>t, <2>1, <2>p DEF Arrive, LanesTypeOK, Obj, Live
    <2>3. pc[r] = "new" /\ pc'[r] = "arrived" /\ \A q \in Req \ {r} : pc'[q] = pc[q]
      BY <1>2, <1>t DEF Arrive, LanesTypeOK
    <2>4. ScoresAState'
      BY <1>2, <1>t, <2>3 DEF Arrive, ScoresAState, Obj
    <2> QED
      BY <1>2, <2>2, <2>3, <2>4, QuietStep DEF Arrive, InLane, Begun, Observed
  <1>3. ASSUME NEW r \in Req, observeNothing(r) PROVE LanesInv'
    <2>1. pc' \in [Req -> Steps]
      BY <1>3, <1>t DEF observeNothing, LanesTypeOK, Steps
    <2>2. LanesTypeOK'
      BY <1>3, <1>t, <2>1 DEF observeNothing, LanesTypeOK, Obj, Live
    <2>3. pc[r] = "marked" /\ pc'[r] = "no usage" /\ \A q \in Req \ {r} : pc'[q] = pc[q]
      BY <1>3, <1>t DEF observeNothing, LanesTypeOK
    <2>4. ScoresAState'
      BY <1>3, <1>t, <2>3 DEF observeNothing, ScoresAState, Obj
    <2> QED
      BY <1>3, <2>2, <2>3, <2>4, QuietStep DEF observeNothing, InLane, Begun, Observed
  <1>4. ASSUME NEW r \in Req, rescoreLookup(r) PROVE LanesInv'
    <2>1. table[sess[r]] \in Obj \cup {NoObj}
      BY <1>t DEF LanesTypeOK
    <2>2. pc' \in [Req -> Steps] /\ score' \in [Req -> Obj \cup {NoObj}]
      BY <1>4, <1>t, <2>1 DEF rescoreLookup, LanesTypeOK, Steps
    <2>3. LanesTypeOK'
      BY <1>4, <1>t, <2>2 DEF rescoreLookup, LanesTypeOK, Obj, Live
    <2>4. /\ pc[r] = "append" /\ pc'[r] \in {"done", "score"}
          /\ pc'[r] = "score" => score'[r] \in Obj
          /\ \A q \in Req \ {r} : pc'[q] = pc[q] /\ score'[q] = score[q]
      BY <1>4, <1>t, <2>1 DEF rescoreLookup, LanesTypeOK
    <2>5. ScoresAState'
      BY <1>t, <2>4 DEF ScoresAState, Obj
    <2> QED
      BY <1>4, <2>3, <2>4, <2>5, QuietStep DEF rescoreLookup, InLane, Begun, Observed
  <1>5. ASSUME NEW r \in Req, rescoreWalk(r) PROVE LanesInv'
    <2>1. score[r] \in Obj /\ agent[r] \in Agent
      BY <1>5, <1>t DEF rescoreWalk, ScoresAState, LanesTypeOK
    <2>2. builder' \in [Obj -> [Agent -> Nat]]
      BY <1>5, <1>t, <2>1 DEF rescoreWalk, LanesTypeOK
    <2>3. pc' \in [Req -> Steps]
      BY <1>5, <1>t DEF rescoreWalk, LanesTypeOK, Steps
    <2>m. mine' \in [Req -> Nat]
      <3>1. builder'[score[r]][agent[r]] \in Nat
        BY <2>1, <2>2
      <3> QED
        BY <1>5, <1>t, <3>1 DEF rescoreWalk, LanesTypeOK
    <2>4. LanesTypeOK'
      BY <1>5, <1>t, <2>2, <2>3, <2>m DEF rescoreWalk, LanesTypeOK, Obj, Live
    <2>5. pc[r] = "score" /\ pc'[r] = "publish" /\ \A q \in Req \ {r} : pc'[q] = pc[q]
      BY <1>5, <1>t DEF rescoreWalk, LanesTypeOK
    <2>6. ScoresAState'
      BY <1>5, <1>t, <2>5 DEF rescoreWalk, ScoresAState, Obj
    <2> QED
      BY <1>5, <2>4, <2>5, <2>6, QuietStep DEF rescoreWalk, InLane, Begun, Observed
  <1>6. ASSUME NEW r \in Req, rescorePublish(r) PROVE LanesInv'
    <2>1. score[r] \in Obj /\ agent[r] \in Agent /\ mine[r] \in Nat
      BY <1>6, <1>t DEF rescorePublish, ScoresAState, LanesTypeOK
    <2>2. pc' \in [Req -> Steps] /\ covered' \in [Obj -> [Agent -> Nat]]
      BY <1>6, <1>t, <2>1 DEF rescorePublish, LanesTypeOK, Steps
    <2>3. LanesTypeOK'
      BY <1>6, <1>t, <2>2 DEF rescorePublish, LanesTypeOK, Obj, Live
    <2>4. pc[r] = "publish" /\ pc'[r] = "done" /\ \A q \in Req \ {r} : pc'[q] = pc[q]
      BY <1>6, <1>t DEF rescorePublish, LanesTypeOK
    <2>5. ScoresAState'
      BY <1>6, <1>t, <2>4 DEF rescorePublish, ScoresAState, Obj
    <2> QED
      BY <1>6, <2>3, <2>4, <2>5, QuietStep DEF rescorePublish, InLane, Begun, Observed
  <1> QED
    BY <1>1, <1>2, <1>3, <1>4, <1>5, <1>6, EnterInv, CorrelationInv, ObserveInv, LeaveInv
       DEF LanesNext

\* lane_serial means what it says, and the open sets it is read from are exact,
\* however requests overlap and outlive the sessions that are evicted under
\* them, for any number of them and any size of the table.
THEOREM SerialIsAlwaysTrue == LanesSpec => []SerialIsTrue
  <1>1. LanesInv => SerialIsTrue
    BY DEF LanesInv
  <1> QED
    BY <1>1, LanesInitInv, LanesStepInv, PTL DEF LanesSpec

=============================================================================
