\* Two lines, two countries; of the two nodes that answer, a policy rejects one.
SPECIFICATION FairSpec
CONSTANTS
    w = w  v = v  n1 = n1  n2 = n2  n3 = n3  j = j  k = k
    Ids = {a, b}
    Wants = {w, v}
    Nodes = {n1, n2, n3}
    None = None
    OfCountry <- TheirNodes
    Fits <- Accepted
    Country <- Countries
    Up = {n1, n2}
    BatchSize = 1
    Events = {"edit", "click", "page", "failure", "crash"}
    MaxEvents = 1
INVARIANT TypeOK
PROPERTIES ReleasedForOwnNode Released
CHECK_DEADLOCK FALSE
