\* The commands of simple_block_1 and simple_block_2 together: the behaviours
\* of either driver are among these.  At most one unit per wake-up, the case in
\* which WQ_WAKE_UP may be expected to strand nobody.
CONSTANTS
    Proc = {p1, p2, p3}
    Waits = {"WQ", "WQ_INTERRUPTIBLE", "WQ_INTERRUPTIBLE_TIMEOUT", "WQ_EX"}
    Wakes = {"WQ_WAKE_UP", "WQ_WAKE_UP_ALL"}
    Amounts <- SignedAmounts
    MaxData = 2
    MaxDrawn = 1
    MaxLate = 1
SPECIFICATION Spec
SYMMETRY Symmetry
\* All three may sleep in the uninterruptible WQ, with nobody left to write.
CHECK_DEADLOCK FALSE
INVARIANTS
    OverdraftBound
    NoLostWakeup
    NobodyStranded
