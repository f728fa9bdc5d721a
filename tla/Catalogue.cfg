\* The main site and a mirror with one node more; a list below two is filled up.
SPECIFICATION Spec
CONSTANTS
    n1 = n1  n2 = n2  m1 = m1  m2 = m2
    Nodes = {n1, n2}
    None = None
    Sources = {m1, m2}
    Main = m1
    Offer <- Offers
    Target = 2
    Cap = 3
    Events = {"pause", "connect", "mark", "memory", "error", "disk", "crash"}
    MaxEvents = 2
INVARIANT TypeOK
PROPERTIES UpdateKeeps StatesRestored
CHECK_DEADLOCK FALSE
