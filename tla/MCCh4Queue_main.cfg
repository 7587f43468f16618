\* Two readers and a writer, or one reader and two writers; safety only, so
\* processes, addresses and contents may be permuted.
CONSTANTS
    Proc = {p1, p2, p3}
    Node = {n1, n2}
    Msg = {a, b}
SPECIFICATION Spec
SYMMETRY Symmetry
INVARIANTS
    HeapExact
    NoLostWakeup
PROPERTY ImplementsFifo
