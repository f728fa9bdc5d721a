\* Two threads with the requests that hold no lock: saving and the batch.
SPECIFICATION Spec
CONSTANTS
    Ids = {a, b}
    Ports = {p, q}
    Pins = {}
    Protocols = {vless}
    None = None
    MaxLines = 2
    Threads = {t, u}
    Requests = 2
    Ops = {"save", "all"}
    Faults = {}
SYMMETRY Symmetry
INVARIANT FileSane
CHECK_DEADLOCK FALSE
