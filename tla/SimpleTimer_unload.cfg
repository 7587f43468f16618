\* simple_timer with a period of two ticks.
CONSTANT PERIOD = 2
SPECIFICATION Spec
INVARIANT TimerRemoved
