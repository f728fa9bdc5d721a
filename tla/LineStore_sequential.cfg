\* One request at a time; only the transaction of the script fails.
SPECIFICATION FairSpec
CONSTANTS
    Ids = {a, b}
    Ports = {p, q}
    Pins = {n}
    Protocols = {vless, trojan}
    None = None
    MaxLines = 2
    Threads = {t}
    Requests = 3
    Ops = {"save", "delete", "switch", "direct", "ready", "wake"}
    Faults = {"transaction"}
INVARIANTS TypeOK InSync
PROPERTIES XuiBack AllOrNothing
CHECK_DEADLOCK FALSE
