\* simple_block_1: its three waits and its wake-up.
CONSTANTS
    Proc = {p1, p2}
    Waits = {"WQ", "WQ_INTERRUPTIBLE", "WQ_INTERRUPTIBLE_TIMEOUT"}
    Wakes = {"WQ_WAKE_UP"}
    Amounts <- SignedAmounts
    MaxData = 2
    MaxDrawn = 1
    MaxLate = 1
SPECIFICATION Spec
INVARIANT ConsumesWhatExists
