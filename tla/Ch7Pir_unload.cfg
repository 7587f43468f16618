CONSTANT HOLD = 2
SPECIFICATION PirSpec
INVARIANT NoTimerAfterUnload
