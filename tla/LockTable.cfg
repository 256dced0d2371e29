\* Three tasks, three keys and room for two: eviction, refusal, expiry and
\* cancelled waiters all happen.
CONSTANTS
    Task = {t1, t2, t3}
    Key = {k1, k2, k3}
    Capacity = 2
    MaxMutexes = 3
    NoKey = NoKey
SPECIFICATION LiveSpec
INVARIANTS HandleIsCurrent WithinCapacity
PROPERTIES ImplementsKeyedMutex WaiterIsServed
CHECK_DEADLOCK FALSE
