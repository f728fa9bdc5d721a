\* Two lines with a namespace each; one crash, one process death.
SPECIFICATION Spec
CONSTANTS
    Lines = {l1, l2}
    Namespaces = {l1, l2}
    NsOf <- OwnNamespaces
    Nodes = {n1}
    IPs = {home, away}
    LocalIPs = {home}
    ResidentialIPs = {}
    HostingIPs = {home, away}
    ForcedHosting = {}
    Pids = {p1, p2, p3, p4}
    Free = Free  Host = Host  None = None  Absent = Absent
    Threshold = 2
    PidReuse = FALSE
    Modes = {"all"}
    MaxEdits = 1
    MaxCrashes = 1
    MaxDeaths = 1
SYMMETRY Symmetry
INVARIANTS TypeOK FailClosed CountryLock
PROPERTIES LinesIsolated ImplementsService
