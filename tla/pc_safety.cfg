SPECIFICATION Spec
CONSTANTS
    p1 = p1
    p2 = p2
    c1 = c1
    c2 = c2
    node = node
    app = app
    a = a
    b = b
    Producers = {p1, p2}
    Consumers = {c1, c2}
    CThreads = {node}
    Owner <- OneOwner
    Items = {a, b}
    MaxQueueSize = 2
SYMMETRY Symmetry
PROPERTY ImplementsBoundedQueue
INVARIANTS
    TypeOK
    Bounded
    NoLostWakeup
    NoStandoff
