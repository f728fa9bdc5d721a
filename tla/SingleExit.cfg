\* Any three requests or deaths in two threads.
SPECIFICATION Spec
CONSTANTS
    Threads = {t, u}
    Nodes = {m, n}
    Procs = {p, q}
    None = None
    Attempts = 1
    Ops = {"connect", "disconnect", "route", "favorite", "check", "test", "death"}
    Requests = 3
SYMMETRY Symmetry
VIEW View
INVARIANTS TypeOK OneAtATime OneTunnel SettingsHoldApart MarkFreed
CHECK_DEADLOCK FALSE
