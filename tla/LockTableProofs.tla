--------------------------- MODULE LockTableProofs ---------------------------
(* Proofs about LockTable, for every number of tasks and keys and every       *)
(* capacity.                                                                  *)
EXTENDS LockTable, FiniteSetTheorems, TLAPS

Inv == TableType /\ HandleIsCurrent

(* What retain and an eviction have in common: nothing referenced is dropped. *)
KeepsInUse(kept) ==
    /\ kept \subseteq Present
    /\ \A k \in Present : InUse(entry[k]) => k \in kept

LEMMA RetainedKeepsInUse == KeepsInUse(Retained)
BY DEF KeepsInUse, Retained

LEMMA EvictionKeepsInUse ==
    ASSUME NEW v \in Key, Victim(v)
    PROVE  KeepsInUse(Retained \ {v})
BY DEF KeepsInUse, Retained, Victim

(* A task with a clone finds the entry of its key among those kept.           *)
LEMMA HandleIsKept ==
    ASSUME Inv, NEW kept, KeepsInUse(kept), NEW u \in Task, arc[u] # 0
    PROVE  key[u] \in Key /\ key[u] \in kept /\ entry[key[u]] = arc[u]
BY DEF Inv, HandleIsCurrent, KeepsInUse, Present, InUse

(* The table lock's section of acquire keeps every handle current.            *)
LEMMA CloneKeepsInv ==
    ASSUME Inv, NEW t \in Task, NEW k \in Key, NEW kept, KeepsInUse(kept),
           pc[t] = "idle", Clone(t, k, kept)
    PROVE  Inv'
<1>. DEFINE fresh == k \notin kept
            mutex == IF fresh THEN made + 1 ELSE entry[k]
<1>1. /\ made' = IF fresh THEN made + 1 ELSE made
      /\ entry' = [j \in Key |-> IF j = k THEN mutex
                                 ELSE IF j \in kept THEN entry[j] ELSE 0]
      /\ stale' = stale \ {k}
      /\ pc' = [pc EXCEPT ![t] = "waiting"]
      /\ key' = [key EXCEPT ![t] = k]
      /\ arc' = [arc EXCEPT ![t] = mutex]
  BY DEF Clone, Touch
<1>2. TableType BY DEF Inv
<1>3. mutex \in 1 .. made' /\ made' \in Nat /\ made <= made'
  BY <1>1, <1>2 DEF TableType, KeepsInUse, Present
<1>4. entry' \in [Key -> 0 .. made']
  <2>1. ASSUME NEW j \in Key PROVE entry'[j] \in 0 .. made'
    <3>1. entry[j] \in 0 .. made BY <1>2 DEF TableType
    <3>. QED BY <1>1, <1>2, <1>3, <3>1 DEF TableType
  <2>. QED BY <1>1, <2>1
<1>5. TableType'
  <2>1. arc' \in [Task -> 0 .. made'] BY <1>1, <1>2, <1>3 DEF TableType
  <2>2. key' \in [Task -> Key \union {NoKey}] BY <1>1, <1>2 DEF TableType
  <2>3. pc' \in [Task -> {"idle", "waiting", "holding"}] BY <1>1, <1>2 DEF TableType
  <2>4. stale' \subseteq Key BY <1>1, <1>2 DEF TableType
  <2>. QED BY <1>3, <1>4, <2>1, <2>2, <2>3, <2>4 DEF TableType
<1>6. arc[t] = 0 BY DEF Inv, HandleIsCurrent
<1>7. arc'[t] = mutex /\ key'[t] = k /\ pc'[t] = "waiting" /\ entry'[k] = mutex
  BY <1>1, <1>2 DEF TableType
<1>8. \A u \in Task : u # t => arc'[u] = arc[u] /\ key'[u] = key[u] /\ pc'[u] = pc[u]
  BY <1>1, <1>2 DEF TableType
<1>9. \A u \in Task : pc'[u] # "idle" <=> arc'[u] # 0
  <2>1. mutex # 0 BY <1>3
  <2>. QED BY <1>7, <1>8, <2>1 DEF Inv, HandleIsCurrent
<1>10. ASSUME NEW u \in Task, arc'[u] # 0
       PROVE  key'[u] \in Key /\ entry'[key'[u]] = arc'[u]
  <2>1. CASE u = t BY <1>7, <2>1
  <2>2. CASE u # t
    <3>1. key[u] \in Key /\ key[u] \in kept /\ entry[key[u]] = arc[u]
      BY <1>8, <1>10, <2>2, HandleIsKept
    <3>2. entry'[key[u]] = entry[key[u]] BY <1>1, <3>1
    <3>. QED BY <1>8, <2>2, <3>1, <3>2
  <2>. QED BY <2>1, <2>2
<1>11. ASSUME NEW i \in Key, NEW j \in Key, entry'[i] = entry'[j], entry'[i] # 0
       PROVE  i = j
  <2>1. \A m \in Key : entry[m] <= made /\ made + 1 # entry[m]
    BY <1>2 DEF TableType
  <2>2. \A m, n \in Key : entry[m] = entry[n] /\ entry[m] # 0 => m = n
    BY DEF Inv, HandleIsCurrent
  <2>3. \A m \in Key : m # k => entry'[m] = entry[m] \/ entry'[m] = 0
    BY <1>1
  <2>4. entry'[k] = made + 1 \/ entry'[k] = entry[k] BY <1>7
  <2>. QED BY <1>11, <2>1, <2>2, <2>3, <2>4
<1>12. \A u, w \in Task :
          pc'[u] = "holding" /\ pc'[w] = "holding" /\ arc'[u] = arc'[w] => u = w
  <2>1. \A u \in Task : pc'[u] = "holding" => u # t BY <1>7
  <2>. QED BY <1>8, <2>1 DEF Inv, HandleIsCurrent
<1>. QED BY <1>5, <1>9, <1>10, <1>11, <1>12 DEF Inv, HandleIsCurrent

(* Entries are dropped, none of them referenced (retain alone, prune).        *)
LEMMA DroppingKeepsInv ==
    ASSUME Inv, KeepsInUse(Retained),
           entry' = [k \in Key |-> IF k \in Retained THEN entry[k] ELSE 0],
           UNCHANGED <<stale, made, pc, key, arc>>
    PROVE  Inv'
<1>1. TableType' BY DEF Inv, TableType
<1>2. ASSUME NEW u \in Task, arc'[u] # 0
      PROVE  key'[u] \in Key /\ entry'[key'[u]] = arc'[u]
  <2>1. key[u] \in Key /\ key[u] \in Retained /\ entry[key[u]] = arc[u]
    BY <1>2, HandleIsKept
  <2>. QED BY <2>1
<1>3. \A i, j \in Key : entry'[i] = entry'[j] /\ entry'[i] # 0 => i = j
  BY DEF Inv, HandleIsCurrent
<1>. QED BY <1>1, <1>2, <1>3 DEF Inv, HandleIsCurrent

(* A guard or a waiting future is dropped.                                    *)
LEMMA DropArcKeepsInv ==
    ASSUME Inv, NEW t \in Task, DropArc(t)
    PROVE  Inv'
<1>1. /\ pc' = [pc EXCEPT ![t] = "idle"]
      /\ key' = [key EXCEPT ![t] = NoKey]
      /\ arc' = [arc EXCEPT ![t] = 0]
      /\ UNCHANGED <<entry, stale, made>>
  BY DEF DropArc
<1>2. TableType' BY <1>1 DEF Inv, TableType
<1>3. arc'[t] = 0 /\ pc'[t] = "idle" BY <1>1 DEF Inv, TableType
<1>4. \A u \in Task : u # t => arc'[u] = arc[u] /\ key'[u] = key[u] /\ pc'[u] = pc[u]
  BY <1>1 DEF Inv, TableType
<1>. QED BY <1>1, <1>2, <1>3, <1>4 DEF Inv, HandleIsCurrent

(* A waiter locks the mutex nobody has locked.                                *)
LEMMA LockKeepsInv ==
    ASSUME Inv, NEW t \in Task, Lock(t)
    PROVE  Inv'
<1>1. /\ pc[t] = "waiting"
      /\ \A u \in Task : pc[u] = "holding" => arc[u] # arc[t]
      /\ pc' = [pc EXCEPT ![t] = "holding"]
      /\ UNCHANGED <<entry, stale, made, key, arc>>
  BY DEF Lock
<1>2. TableType' BY <1>1 DEF Inv, TableType
<1>3. pc'[t] = "holding" /\ \A u \in Task : u # t => pc'[u] = pc[u]
  BY <1>1 DEF Inv, TableType
<1>. QED BY <1>1, <1>2, <1>3 DEF Inv, HandleIsCurrent

LEMMA InitInv == Init => Inv
BY DEF Init, Inv, TableType, HandleIsCurrent

LEMMA StepInv == Inv /\ [Next]_vars => Inv'
<1>. SUFFICES ASSUME Inv, [Next]_vars PROVE Inv'
  OBVIOUS
<1>1. ASSUME NEW t \in Task, NEW k \in Key, Acquire(t, k) PROVE Inv'
  BY <1>1, CloneKeepsInv, RetainedKeepsInUse DEF Acquire
<1>2. ASSUME NEW t \in Task, NEW k \in Key, AcquireEvicting(t, k) PROVE Inv'
  <2>1. PICK v \in Key : Victim(v) /\ Clone(t, k, Retained \ {v})
    BY <1>2 DEF AcquireEvicting
  <2>. QED BY <1>2, <2>1, CloneKeepsInv, EvictionKeepsInUse DEF AcquireEvicting
<1>3. ASSUME NEW t \in Task, NEW k \in Key, AcquireRefused(t, k) PROVE Inv'
  <2>1. CASE UNCHANGED entry
    BY <1>3, <2>1 DEF AcquireRefused, Inv, TableType, HandleIsCurrent
  <2>2. CASE entry' = [j \in Key |-> IF j \in Retained THEN entry[j] ELSE 0]
    BY <1>3, <2>2, DroppingKeepsInv, RetainedKeepsInUse DEF AcquireRefused
  <2>. QED BY <1>3, <2>1, <2>2 DEF AcquireRefused
<1>4. ASSUME NEW t \in Task, Lock(t) PROVE Inv'
  BY <1>4, LockKeepsInv
<1>5. ASSUME NEW t \in Task, Unlock(t) \/ CancelWaiter(t) PROVE Inv'
  BY <1>5, DropArcKeepsInv DEF Unlock, CancelWaiter
<1>6. CASE Prune
  BY <1>6, DroppingKeepsInv, RetainedKeepsInUse DEF Prune
<1>7. ASSUME NEW k \in Key, TtlElapses(k) PROVE Inv'
  BY <1>7 DEF TtlElapses, Inv, TableType, HandleIsCurrent
<1>8. CASE UNCHANGED vars
  BY <1>8 DEF vars, Inv, TableType, HandleIsCurrent
<1>. QED BY <1>1, <1>2, <1>3, <1>4, <1>5, <1>6, <1>7, <1>8 DEF Next

LEMMA InvHolds == Spec => []Inv
BY InitInv, StepInv, PTL DEF Spec

(* Every clone of a mutex is the one the table gives out for its key, and a   *)
(* mutex has one holder, whatever acquire and prune evict.                    *)
THEOREM HandlesStayCurrent == Spec => []HandleIsCurrent
<1>1. Inv => HandleIsCurrent BY DEF Inv
<1>. QED BY <1>1, InvHolds, PTL

-----------------------------------------------------------------------------
(* The section of acquire adds at most the entry of its key to those kept.    *)
LEMMA CloneFits ==
    ASSUME Inv, WithinCapacity, NEW t \in Task, NEW k \in Key,
           NEW kept, KeepsInUse(kept), Clone(t, k, kept),
           k \in kept \/ Cardinality(kept) < Capacity
    PROVE  WithinCapacity'
<1>1. IsFiniteSet(Present) /\ IsFiniteSet(kept) /\ Cardinality(kept) <= Cardinality(Present)
  <2>1. IsFiniteSet(Present) BY FiniteAssumption, FS_Subset DEF Present
  <2>. QED BY <2>1, FS_Subset DEF KeepsInUse
<1>2. Present' \subseteq kept \union {k}
  BY DEF Present, Clone
<1>3. /\ IsFiniteSet(kept \union {k})
      /\ Cardinality(kept \union {k}) =
            IF k \in kept THEN Cardinality(kept) ELSE Cardinality(kept) + 1
  BY <1>1, FS_AddElement
<1>4. Cardinality(Present') <= Cardinality(kept \union {k})
  BY <1>2, <1>3, FS_Subset
<1>5. IsFiniteSet(Present')
  BY <1>2, <1>3, FS_Subset
<1>6. /\ Cardinality(Present') \in Nat /\ Cardinality(Present) \in Nat
      /\ Cardinality(kept) \in Nat
  BY <1>1, <1>5, FS_CardinalityType
<1>. QED BY <1>1, <1>3, <1>4, <1>6, BoundsAssumption DEF WithinCapacity

(* Dropping entries leaves no more of them.                                   *)
LEMMA DroppingFits ==
    ASSUME WithinCapacity, Present' \subseteq Present
    PROVE  WithinCapacity'
<1>1. IsFiniteSet(Present) BY FiniteAssumption, FS_Subset DEF Present
<1>2. IsFiniteSet(Present') /\ Cardinality(Present') <= Cardinality(Present)
  BY <1>1, FS_Subset
<1>3. Cardinality(Present') \in Nat /\ Cardinality(Present) \in Nat
  BY <1>1, <1>2, FS_CardinalityType
<1>. QED BY <1>2, <1>3, BoundsAssumption DEF WithinCapacity

(* At capacity, the eviction leaves room for one entry.                       *)
LEMMA EvictionMakesRoom ==
    ASSUME WithinCapacity, NEW v \in Key, Victim(v)
    PROVE  Cardinality(Retained \ {v}) < Capacity
<1>1. IsFiniteSet(Present) BY FiniteAssumption, FS_Subset DEF Present
<1>2. IsFiniteSet(Retained) /\ Cardinality(Retained) <= Cardinality(Present)
  BY <1>1, FS_Subset DEF Retained
<1>3. v \in Retained BY DEF Victim
<1>4. /\ IsFiniteSet(Retained \ {v})
      /\ Cardinality(Retained \ {v}) = Cardinality(Retained) - 1
  BY <1>2, <1>3, FS_RemoveElement
<1>5. Cardinality(Retained) \in Nat /\ Cardinality(Present) \in Nat
  BY <1>1, <1>2, FS_CardinalityType
<1>. QED BY <1>2, <1>4, <1>5, BoundsAssumption DEF WithinCapacity

(* No step of the table leaves more entries than its capacity.                *)
LEMMA StepFits == Inv /\ WithinCapacity /\ [Next]_vars => WithinCapacity'
<1>. SUFFICES ASSUME Inv, WithinCapacity, [Next]_vars PROVE WithinCapacity'
  OBVIOUS
<1>1. ASSUME NEW t \in Task, NEW k \in Key, Acquire(t, k) PROVE WithinCapacity'
  BY <1>1, CloneFits, RetainedKeepsInUse DEF Acquire, Room
<1>2. ASSUME NEW t \in Task, NEW k \in Key, AcquireEvicting(t, k) PROVE WithinCapacity'
  <2>1. PICK v \in Key : Victim(v) /\ Clone(t, k, Retained \ {v})
    BY <1>2 DEF AcquireEvicting
  <2>2. Cardinality(Retained \ {v}) < Capacity BY <2>1, EvictionMakesRoom
  <2>3. KeepsInUse(Retained \ {v}) BY <2>1, EvictionKeepsInUse
  <2>. QED BY <2>1, <2>2, <2>3, CloneFits
<1>3. CASE \/ \E t \in Task, k \in Key : AcquireRefused(t, k)
           \/ \E t \in Task : Lock(t) \/ Unlock(t) \/ CancelWaiter(t)
           \/ Prune
           \/ \E k \in Key : TtlElapses(k)
           \/ UNCHANGED vars
  <2>1. \A k \in Key : entry'[k] = entry[k] \/ entry'[k] = 0
    BY <1>3 DEF AcquireRefused, Lock, Unlock, CancelWaiter, DropArc, Prune, TtlElapses, vars
  <2>2. Present' \subseteq Present BY <2>1 DEF Present
  <2>. QED BY <2>2, DroppingFits
<1>. QED BY <1>1, <1>2, <1>3 DEF Next

(* The table keeps to its capacity, for every capacity and set of keys        *)
(* (acquire evicts or refuses at the limit).                                  *)
THEOREM TableStaysWithinCapacity == Spec => []WithinCapacity
<1>1. Init => WithinCapacity
  <2>. SUFFICES ASSUME Init PROVE WithinCapacity OBVIOUS
  <2>1. Present = {} BY DEF Init, Present
  <2>. QED BY <2>1, FS_EmptySet, BoundsAssumption DEF WithinCapacity
<1>. QED BY <1>1, InvHolds, StepFits, PTL DEF Spec

-----------------------------------------------------------------------------
(* The section of a key has at most one task in it.                           *)
LEMMA OneOwner ==
    ASSUME Inv, NEW t \in Task, NEW u \in Task, NEW k \in Key,
           t \in Owners(k), u \in Owners(k)
    PROVE  t = u
BY DEF Inv, HandleIsCurrent, Owners

AllOwners == [k \in Key |-> Owners(k)]

(* A step after which every task is inside exactly what it was inside before. *)
LEMMA SameOwners ==
    ASSUME \A u \in Task : \A k \in Key :
              (pc'[u] = "holding" /\ key'[u] = k) <=> (pc[u] = "holding" /\ key[u] = k)
    PROVE  AllOwners' = AllOwners
<1>1. \A k \in Key : Owners(k)' = Owners(k) BY DEF Owners
<1>. QED BY <1>1 DEF AllOwners

(* lock_owned is an Enter of the key's section.                               *)
LEMMA LockEnters ==
    ASSUME Inv, NEW t \in Task, Lock(t)
    PROVE  KeyedLocks!Next
<1>1. /\ pc[t] = "waiting"
      /\ \A u \in Task : pc[u] = "holding" => arc[u] # arc[t]
      /\ pc' = [pc EXCEPT ![t] = "holding"]
      /\ UNCHANGED key
  BY DEF Lock
<1>2. key[t] \in Key /\ entry[key[t]] = arc[t]
  BY <1>1 DEF Inv, HandleIsCurrent
<1>. PICK k \in Key : k = key[t] BY <1>2
<1>3. Owners(k) = {} BY <1>1, <1>2 DEF Inv, HandleIsCurrent, Owners
<1>4. pc'[t] = "holding" /\ \A u \in Task : u # t => pc'[u] = pc[u]
  BY <1>1 DEF Inv, TableType
<1>5. Owners(k)' = {t} BY <1>1, <1>3, <1>4 DEF Owners
<1>6. \A j \in Key : j # k => Owners(j)' = Owners(j)
  BY <1>1, <1>4 DEF Owners
<1>7. KeyedLocks!Enter(t, k)
  BY <1>2, <1>3, <1>5, <1>6 DEF KeyedLocks!Enter
<1>. QED BY <1>2, <1>7 DEF KeyedLocks!Next

(* Dropping the guard is a Leave; dropping a waiting future is not seen.      *)
LEMMA UnlockLeaves ==
    ASSUME Inv, NEW t \in Task, Unlock(t)
    PROVE  KeyedLocks!Next
<1>1. /\ pc[t] = "holding"
      /\ pc' = [pc EXCEPT ![t] = "idle"]
      /\ key' = [key EXCEPT ![t] = NoKey]
  BY DEF Unlock, DropArc
<1>2. key[t] \in Key /\ entry[key[t]] = arc[t]
  BY <1>1 DEF Inv, HandleIsCurrent
<1>. PICK k \in Key : k = key[t] BY <1>2
<1>3. t \in Owners(k) BY <1>1 DEF Owners
<1>4. Owners(k) = {t} BY <1>2, <1>3, OneOwner DEF Owners
<1>5. /\ pc'[t] = "idle"
      /\ \A u \in Task : u # t => pc'[u] = pc[u] /\ key'[u] = key[u]
  BY <1>1 DEF Inv, TableType
<1>6. Owners(k)' = {} BY <1>4, <1>5 DEF Owners
<1>7. \A j \in Key : j # k => Owners(j)' = Owners(j)
  BY <1>5 DEF Owners
<1>8. KeyedLocks!Leave(t, k)
  BY <1>2, <1>4, <1>6, <1>7 DEF KeyedLocks!Leave
<1>. QED BY <1>2, <1>8 DEF KeyedLocks!Next

(* Every step of the table is a step of the keyed mutex or changes no owner.  *)
LEMMA StepRefines ==
    ASSUME Inv, [Next]_vars
    PROVE  [KeyedLocks!Next]_AllOwners
<1>1. ASSUME NEW t \in Task, Lock(t) PROVE KeyedLocks!Next
  BY <1>1, LockEnters
<1>2. ASSUME NEW t \in Task, Unlock(t) PROVE KeyedLocks!Next
  BY <1>2, UnlockLeaves
<1>3. ASSUME NEW t \in Task, CancelWaiter(t) PROVE AllOwners' = AllOwners
  <2>1. /\ pc[t] = "waiting" /\ pc'[t] = "idle"
        /\ \A u \in Task : u # t => pc'[u] = pc[u] /\ key'[u] = key[u]
    BY <1>3 DEF CancelWaiter, DropArc, Inv, TableType
  <2>. QED BY <2>1, SameOwners
<1>4. ASSUME NEW t \in Task, NEW k \in Key, NEW kept, pc[t] = "idle", Clone(t, k, kept)
      PROVE  AllOwners' = AllOwners
  <2>1. /\ pc'[t] = "waiting"
        /\ \A u \in Task : u # t => pc'[u] = pc[u] /\ key'[u] = key[u]
    BY <1>4 DEF Clone, Inv, TableType
  <2>. QED BY <1>4, <2>1, SameOwners
<1>5. ASSUME NEW t \in Task, NEW k \in Key, Acquire(t, k) \/ AcquireEvicting(t, k)
      PROVE  AllOwners' = AllOwners
  BY <1>4, <1>5 DEF Acquire, AcquireEvicting
<1>6. CASE \/ \E t \in Task, k \in Key : AcquireRefused(t, k)
           \/ Prune
           \/ \E k \in Key : TtlElapses(k)
           \/ UNCHANGED vars
  <2>1. pc' = pc /\ key' = key
    BY <1>6 DEF AcquireRefused, Prune, TtlElapses, vars
  <2>. QED BY <2>1, SameOwners
<1>. QED BY <1>1, <1>2, <1>3, <1>5, <1>6 DEF Next

(* The lock managers implement one mutex per key, for every number of tasks,  *)
(* keys and places in the table (acquire, prune, dropped guards and waiters). *)
THEOREM LockTableIsKeyedMutex == Spec => ImplementsKeyedMutex
<1>1. Init => KeyedLocks!Init
  BY DEF Init, KeyedLocks!Init, Owners
<1>2. Inv /\ [Next]_vars => [KeyedLocks!Next]_AllOwners
  BY StepRefines
<1>. QED
  BY <1>1, <1>2, InvHolds, PTL DEF Spec, ImplementsKeyedMutex, KeyedLocks!Spec, AllOwners
=============================================================================
