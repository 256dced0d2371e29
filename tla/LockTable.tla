------------------------------ MODULE LockTable ------------------------------
(* The table of per-key mutexes behind DeliveryLockManager (one lock per bot  *)
(* and chat) and LocatorLockManager (one lock per SillyTavern chat).  It is   *)
(* bounded: an idle entry is dropped when its ttl is over or when a new key   *)
(* needs its place.  A mutex is a number, fresh for every Arc::new; a task    *)
(* that holds a clone of the Arc, waiting or inside, keeps it referenced.     *)
EXTENDS Naturals, Sequences, FiniteSets

CONSTANTS Task,         \* the tasks that acquire
          Key,          \* the keys they acquire
          Capacity,     \* LockTable.capacity
          MaxMutexes,   \* bound: mutexes ever created
          NoKey         \* the key of a task that acquires nothing

ASSUME BoundsAssumption == Capacity \in Nat /\ MaxMutexes \in Nat
ASSUME FiniteAssumption == IsFiniteSet(Key) /\ IsFiniteSet(Task)

ASSUME NoKeyAssumption == NoKey \notin Key

VARIABLES entry,        \* entry[k]: the mutex the table has for k; 0: no entry
          age,          \* the keys acquired so far, oldest last_used first
          stale,        \* the keys whose last_used is at least ttl ago
          made,         \* the mutexes created
          pc,           \* where a task is in acquire
          key,          \* the key it acquires
          arc,          \* the mutex it has a clone of; 0: none
          line          \* the waiting tasks, in the order they began to wait

vars == <<entry, age, stale, made, pc, key, arc, line>>

TableType ==
    /\ made \in Nat
    /\ entry \in [Key -> 0 .. made]
    /\ stale \subseteq Key
    /\ pc \in [Task -> {"idle", "waiting", "holding"}]
    /\ key \in [Task -> Key \union {NoKey}]
    /\ arc \in [Task -> 0 .. made]

TypeOK ==
    /\ TableType
    /\ age \in Seq(Key)
    /\ line \in Seq(Task)

(* LockTable::new: no entry.                                                  *)
Init ==
    /\ entry = [k \in Key |-> 0]
    /\ age = <<>>
    /\ stale = {}
    /\ made = 0
    /\ pc = [t \in Task |-> "idle"]
    /\ key = [t \in Task |-> NoKey]
    /\ arc = [t \in Task |-> 0]
    /\ line = <<>>

-----------------------------------------------------------------------------
Present == {k \in Key : entry[k] # 0}

(* Mutant: an entry counts as referenced only while its mutex is locked.      *)
InUseIfLocked(a) == \E t \in Task : arc[t] = a /\ pc[t] = "holding"

(* Arc::strong_count(&e.lock) > 1                                             *)
InUse(a) == \E t \in Task : arc[t] = a

(* Mutant: an entry survives only its ttl, whoever uses it.                   *)
RetainedIgnoringUse == {k \in Present : k \notin stale}

(* entries.retain: what is referenced, and what was used within the ttl.      *)
Retained == {k \in Present : InUse(entry[k]) \/ k \notin stale}

Before(s, x, y) == \E i, j \in DOMAIN s : i < j /\ s[i] = x /\ s[j] = y

(* The entry evicted at capacity: of the idle ones, the least recently used.  *)
Victim(v) ==
    /\ v \in Retained
    /\ ~InUse(entry[v])
    /\ \A w \in Retained : ~InUse(entry[w]) => ~Before(age, w, v)

Touch(k) ==
    /\ age' = Append(SelectSeq(age, LAMBDA j : j # k), k)
    /\ stale' = stale \ {k}

(* Mutant: a new key is inserted without looking at the capacity.             *)
RoomAlways(k, kept) == TRUE

(* There is room for k among the entries kept.                                *)
Room(k, kept) == k \in kept \/ Cardinality(kept) < Capacity

(* The table lock's section of acquire, which ends with the clone of the Arc  *)
(* of k, in a table that keeps the entries kept.                              *)
Clone(t, k, kept) ==
    LET fresh == k \notin kept
        mutex == IF fresh THEN made + 1 ELSE entry[k]
    IN  /\ fresh => made < MaxMutexes
        /\ made' = IF fresh THEN made + 1 ELSE made
        /\ entry' = [j \in Key |-> IF j = k THEN mutex
                                   ELSE IF j \in kept THEN entry[j] ELSE 0]
        /\ Touch(k)
        /\ pc' = [pc EXCEPT ![t] = "waiting"]
        /\ key' = [key EXCEPT ![t] = k]
        /\ arc' = [arc EXCEPT ![t] = mutex]
        /\ line' = Append(line, t)

(* acquire finds the key, or room for it.                                     *)
Acquire(t, k) ==
    /\ pc[t] = "idle"
    /\ Capacity # 0
    /\ Room(k, Retained)
    /\ Clone(t, k, Retained)

(* acquire makes room by evicting the oldest idle entry.                      *)
AcquireEvicting(t, k) ==
    /\ pc[t] = "idle"
    /\ Capacity # 0
    /\ ~Room(k, Retained)
    /\ \E v \in Key : Victim(v) /\ Clone(t, k, Retained \ {v})

(* AtCapacity: every entry is in use; the expired ones are dropped all the    *)
(* same.  A capacity of 0 refuses before it looks.                            *)
AcquireRefused(t, k) ==
    /\ pc[t] = "idle"
    /\ \/ /\ Capacity = 0
          /\ UNCHANGED entry
       \/ /\ Capacity # 0
          /\ ~Room(k, Retained)
          /\ \A v \in Key : ~Victim(v)
          /\ entry' = [j \in Key |-> IF j \in Retained THEN entry[j] ELSE 0]
    /\ UNCHANGED <<age, stale, made, pc, key, arc, line>>

(* Mutant: whoever asks first when the mutex is free gets it.                  *)
LockUnfair(t) ==
    /\ pc[t] = "waiting"
    /\ ~\E u \in Task : pc[u] = "holding" /\ arc[u] = arc[t]
    /\ pc' = [pc EXCEPT ![t] = "holding"]
    /\ line' = SelectSeq(line, LAMBDA u : u # t)
    /\ UNCHANGED <<entry, age, stale, made, key, arc>>

(* lock_owned: tokio's mutex serves the waiters in the order they came.       *)
Lock(t) ==
    /\ pc[t] = "waiting"
    /\ ~\E u \in Task : pc[u] = "holding" /\ arc[u] = arc[t]
    /\ ~\E u \in Task : arc[u] = arc[t] /\ Before(line, u, t)
    /\ pc' = [pc EXCEPT ![t] = "holding"]
    /\ line' = SelectSeq(line, LAMBDA u : u # t)
    /\ UNCHANGED <<entry, age, stale, made, key, arc>>

(* The clone is gone: the guard is dropped, or a waiter is cancelled.         *)
DropArc(t) ==
    /\ pc' = [pc EXCEPT ![t] = "idle"]
    /\ key' = [key EXCEPT ![t] = NoKey]
    /\ arc' = [arc EXCEPT ![t] = 0]
    /\ UNCHANGED <<entry, age, stale, made>>

Unlock(t) ==
    /\ pc[t] = "holding"
    /\ DropArc(t)
    /\ UNCHANGED line

CancelWaiter(t) ==
    /\ pc[t] = "waiting"
    /\ DropArc(t)
    /\ line' = SelectSeq(line, LAMBDA u : u # t)

(* prune                                                                      *)
Prune ==
    /\ Retained # Present
    /\ entry' = [k \in Key |-> IF k \in Retained THEN entry[k] ELSE 0]
    /\ UNCHANGED <<age, stale, made, pc, key, arc, line>>

(* The clock: the ttl of the last use of k is over.                           *)
TtlElapses(k) ==
    /\ k \in Present \ stale
    /\ stale' = stale \union {k}
    /\ UNCHANGED <<entry, age, made, pc, key, arc, line>>

Next ==
    \/ \E t \in Task, k \in Key :
          Acquire(t, k) \/ AcquireEvicting(t, k) \/ AcquireRefused(t, k)
    \/ \E t \in Task : Lock(t) \/ Unlock(t) \/ CancelWaiter(t)
    \/ Prune
    \/ \E k \in Key : TtlElapses(k)

Spec == Init /\ [][Next]_vars

(* A woken waiter runs, and a critical section ends: its calls have timeouts. *)
Fairness == \A t \in Task : WF_vars(Lock(t)) /\ WF_vars(Unlock(t))

LiveSpec == Spec /\ Fairness

-----------------------------------------------------------------------------
Owners(k) == {t \in Task : pc[t] = "holding" /\ key[t] = k}

KeyedLocks == INSTANCE KeyedMutex WITH owners <- [k \in Key |-> Owners(k)]

(* The two lock managers implement one mutex per key: whatever is evicted,    *)
(* pruned, recreated or cancelled in between, two tasks are never inside the  *)
(* section of one chat (acquire, prune).                                      *)
ImplementsKeyedMutex == KeyedLocks!Spec

(* Whoever holds a clone, holder or waiter, has the mutex the table still     *)
(* gives to newcomers of its key, and its holder is alone: the fact the       *)
(* comment in acquire states, "waiters must also prevent eviction".           *)
HandleIsCurrent ==
    /\ \A t \in Task : pc[t] # "idle" <=> arc[t] # 0
    /\ \A t \in Task : arc[t] # 0 => key[t] \in Key /\ entry[key[t]] = arc[t]
    /\ \A k, j \in Key : entry[k] = entry[j] /\ entry[k] # 0 => k = j
    /\ \A t, u \in Task :
          pc[t] = "holding" /\ pc[u] = "holding" /\ arc[t] = arc[u] => t = u

(* The table never has more entries than its capacity (acquire, at its limit  *)
(* with idle, expired and referenced entries).                                *)
WithinCapacity == Cardinality(Present) <= Capacity

(* A waiter that is not cancelled enters its section, also when the table is  *)
(* full and other keys come and go (acquire).                                 *)
WaiterIsServed ==
    \A t \in Task : pc[t] = "waiting" ~> pc[t] # "waiting"
=============================================================================
