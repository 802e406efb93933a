SPECIFICATION MCSpec
CONSTANTS
    l1 = l1
    l2 = l2
    l3 = l3
    l4 = l4
    A = A
    B = B
    C = C
    LockingThreads = {t1, t2, t3}
    Locks = {l1, l2, l3, l4}
    Names = {A, B, C}
    NameOf <- MCNameOf
    MaxDepth = 3
    LockCount = 4
SYMMETRY Symmetry
CHECK_DEADLOCK FALSE
INVARIANTS NoCircularWait NoRecursiveLock FindsCycles
