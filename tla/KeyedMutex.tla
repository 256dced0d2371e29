----------------------------- MODULE KeyedMutex ------------------------------
(* What the lock managers promise their callers: one mutex per key, held by   *)
(* at most one task at a time, given back by the task that holds it.  How the *)
(* mutexes are stored, evicted and waited for does not show.                  *)
EXTENDS Naturals

CONSTANTS Task, Key

VARIABLE owners         \* owners[k]: the tasks inside the critical section of k

Init == owners = [k \in Key |-> {}]

(* A task enters the section of k, which nobody is in.                        *)
Enter(t, k) ==
    /\ owners[k] = {}
    /\ owners' = [owners EXCEPT ![k] = {t}]

(* The task inside the section of k leaves it.                                *)
Leave(t, k) ==
    /\ owners[k] = {t}
    /\ owners' = [owners EXCEPT ![k] = {}]

Next == \E t \in Task, k \in Key : Enter(t, k) \/ Leave(t, k)

Spec == Init /\ [][Next]_owners
=============================================================================
