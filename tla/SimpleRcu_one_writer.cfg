CONSTANTS
    Reader = {r1, r2}
    Writer = {w1}
    Addr = {a1, a2, a3}
    Value = {v1, v2}
SPECIFICATION FairSpec
INVARIANTS
    ReaderSafe
    HeapExact
PROPERTY WriterReturns
