CONSTANTS
    Proc = {p1, p2}
    Node = {n1, n2, n3}
    Msg = {m1, m2}
    HOLD = 2
    PERIOD = 2
    MaxPress = 2
    Loadable = {"simple_tasklet", "ch6", "ch7", "pi2_led"}
    BUF_SIZE = 2
    WIDTH = 3
    MaxCalls = 3
SPECIFICATION Spec
INVARIANTS
    LampMatchesState
    TimerCoversLamp
    UnloadLeavesNothing
    OutlivesOnlyIfCaught
    HeapExact
    WordSafe
    NoSelfDeadlock
    ListensExactlyWhileOpen
    ListExact
    NothingSurvivesExit
    OwnsWhatItUses
    ReachesAngle
    ScanStaysInside
    ShowsWhatWasWritten
    FinishTimes
    UpdatesSurvive
PROPERTIES
    EventuallyDark
    LedFollowsSwitch
    ImplementsFifo
    RmmodReturns
\* A panic, an oops, and a module unloaded under its own timer are the end.
CHECK_DEADLOCK FALSE
