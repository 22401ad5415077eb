SPECIFICATION ServedSpec
CONSTANTS
    p1 = p1
    p2 = p2
    c1 = c1
    c2 = c2
    node = node
    app = app
    a = a
    b = b
    Producers = {p1}
    Consumers = {c1, c2}
    CThreads = {node, app}
    Owner <- TwoOwners
    Items = {a}
    MaxQueueSize = 2
PROPERTIES
    TerminatedCallReturns
    FullQueueDrains
