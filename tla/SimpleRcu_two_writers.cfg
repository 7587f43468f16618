CONSTANTS
    Reader = {r1}
    Writer = {w1, w2}
    Addr = {a1, a2, a3, a4}
    Value = {v1}
SPECIFICATION Spec
INVARIANT ReaderSafe
