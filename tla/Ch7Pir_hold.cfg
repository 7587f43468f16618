CONSTANT HOLD = 2
SPECIFICATION PirFairSpec
PROPERTY HoldsFullTime
