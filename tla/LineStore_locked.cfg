\* Two threads with the requests that hold the lock, and every fault.
SPECIFICATION Spec
CONSTANTS
    Ids = {a, b}
    Ports = {p, q}
    Pins = {n}
    Protocols = {vless}
    None = None
    MaxLines = 2
    Threads = {t, u}
    Requests = 3
    Ops = {"delete", "ready", "wake"}
    Faults = {"stop", "transaction", "result", "crash"}
SYMMETRY Symmetry
PROPERTIES OthersUntouched ChangedWhileDown
CHECK_DEADLOCK FALSE
