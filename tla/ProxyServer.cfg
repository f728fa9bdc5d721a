\* Three clients that ask the same two questions, with a cache for one.
SPECIFICATION Spec
CONSTANTS
    Clients = {c1, c2, c3}
    Hosts = {h}
    Questions = 2
    Flights = {f1, f2, f3}
    MaxEntries = 1
    MaxConnections = 3
    MaxMoves = 2
    MaxLost = 1
    None = None
SYMMETRY Symmetry
VIEW View
INVARIANTS TypeOK NeverOlder NobodyWaitsInVain Bounded PermitsBalanced
CHECK_DEADLOCK FALSE
