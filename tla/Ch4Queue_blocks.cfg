\* Two readers and a writer, one message.
CONSTANTS
    Proc = {p1, p2, p3}
    Node = {n1, n2}
    Msg = {a}
SPECIFICATION FairSpec
PROPERTY BlocksUntilMessage
