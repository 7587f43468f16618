\* Three processes on the device, loads and unloads included; refinement and
\* liveness, so no symmetry.
CONSTANT Proc = {p1, p2, p3}
SPECIFICATION FairSpec
INVARIANTS
    LampMatchesState
    NothingLeftBehind
PROPERTIES
    ImplementsRegister
    CallsReturn
